---- MODULE Spec2Model ----
(***************************************************************************)
(* Envelope construction of @dragbin/crypto: message.ts (encryptMessage,   *)
(* decryptMessage), symmetric-message.ts (encryptSymmetricMessage,         *)
(* decryptSymmetricMessage) and group.ts (encryptForGroup,                 *)
(* decryptFromGroup).                                                      *)
(*                                                                         *)
(* Buffers (Uint8Array) are sequences of bytes.  A byte is a record        *)
(* [t, a, b, i, d]: t says where the byte comes from ("lit" a literal      *)
(* value a; "rnd" byte i of the random draw number a; "ct" byte i of the   *)
(* AES-GCM output of encryption number a; "kem" byte i of the Kyber        *)
(* ciphertext made with randomness a for key pair b), and d is the         *)
(* difference that tampering has added to the byte (0: untouched).         *)
(* The primitives are ideal: a random draw never repeats an earlier one,   *)
(* AES-GCM opens exactly what it sealed, Kyber decapsulation of anything   *)
(* else than an encapsulation for the matching key gives a secret nobody   *)
(* else holds.                                                             *)
(***************************************************************************)
EXTENDS Integers, Sequences, FiniteSets, TLC

(* ------------------------------ bounds ------------------------------- *)
\* key pairs produced by generateKeyPair before the calls start
NumKeyPairs == 2
\* passwords the callers choose from
NumPasswords == 2
\* longest recipient list handed to encryptForGroup
MaxRecipients == 2
\* encrypt calls in one behaviour
MaxEnc == 2
\* steps (encrypt calls, changes to an envelope, decrypt calls) in one behaviour
MaxOps == 3
\* bytes of a Kyber ciphertext (1568 in Kyber1024, scaled down)
KemCtLen == 2
\* differences a tampered byte can take (255 for a real byte)
MaxDelta == 2
\* salts a caller can supply to encryptSymmetricMessage
NumSalts == 1
\* longest buffer handed to exportBytes (besides the keys of a key pair)
MaxBufLen == 3
\* plaintext bytes in one chunk of a file envelope (1 KB in the library,
\* scaled down)
ChunkSize == 2
\* longest file handed to encryptFile
MaxFileLen == 4
\* calls begun in one behaviour of the calls that run step by step
MaxFrames == 3
\* calls in progress at the same time
MaxRunning == 2

(* ------------------------- program constants ------------------------- *)
IVLen == 12
TagLen == 16
SaltLen == 16
KeyBits == 256
KeyLen == KeyBits \div 8

(* ------------------------------ bytes -------------------------------- *)
Byte(t, a, b, i) == [t |-> t, a |-> a, b |-> b, i |-> i, d |-> 0]
Lit(v) == Byte("lit", v, 0, 0)
LitBytes(vs) == [j \in 1..Len(vs) |-> Lit(vs[j])]
IsLit(x) == x.t = "lit" /\ x.d = 0

\* crypto.getRandomValues(new Uint8Array(n)): the draw number nonce
RandomBytes(nonce, n) == [j \in 1..n |-> Byte("rnd", nonce, 0, j)]

\* utils.concatUint8Arrays
concatUint8Arrays(x, y) == x \o y

\* Uint8Array.subarray(from) and subarray(0, to): clamped to the buffer
subarrayTo(buf, to) == SubSeq(buf, 1, IF to < Len(buf) THEN to ELSE Len(buf))
subarrayFrom(buf, from) == SubSeq(buf, from + 1, Len(buf))

(* ------------------ strings, TextEncoder, TextDecoder ---------------- *)
\* A string is a sequence of UTF-16 code units.
IsHigh(u) == u >= 55296 /\ u <= 56319
IsLow(u) == u >= 56320 /\ u <= 57343
Replacement == 65533
BOM == 65279

RECURSIVE ToScalars(_)
\* USVString conversion: a surrogate pair is one scalar value, a lone
\* surrogate becomes U+FFFD
ToScalars(s) ==
    IF s = <<>> THEN <<>>
    ELSE IF IsHigh(s[1]) /\ Len(s) >= 2 /\ IsLow(s[2])
         THEN <<65536 + (s[1] - 55296) * 1024 + (s[2] - 56320)>> \o ToScalars(SubSeq(s, 3, Len(s)))
    ELSE IF IsHigh(s[1]) \/ IsLow(s[1])
         THEN <<Replacement>> \o ToScalars(Tail(s))
    ELSE <<s[1]>> \o ToScalars(Tail(s))

Utf8Of(c) ==
    IF c < 128 THEN <<c>>
    ELSE IF c < 2048 THEN <<192 + (c \div 64), 128 + (c % 64)>>
    ELSE IF c < 65536 THEN <<224 + (c \div 4096), 128 + ((c \div 64) % 64), 128 + (c % 64)>>
    ELSE <<240 + (c \div 262144), 128 + ((c \div 4096) % 64), 128 + ((c \div 64) % 64), 128 + (c % 64)>>

RECURSIVE Utf8Encode(_)
Utf8Encode(cs) == IF cs = <<>> THEN <<>> ELSE Utf8Of(cs[1]) \o Utf8Encode(Tail(cs))

\* new TextEncoder().encode(message)
TextEncode(s) == LitBytes(Utf8Encode(ToScalars(s)))

\* the value of a byte as the decoder sees it; a byte that is no literal
\* (cipher or key material) is no valid UTF-8
ByteVal(x) == IF IsLit(x) THEN x.a ELSE 255

RECURSIVE Utf8Decode(_, _, _, _, _, _)
\* The WHATWG utf-8 decoder with error mode "replacement": need is the
\* number of continuation bytes still expected, cp the code point so far,
\* [lo, hi] the range allowed for the next continuation byte.
Utf8Decode(bs, need, seen, cp, lo, hi) ==
    IF bs = <<>> THEN (IF need = 0 THEN <<>> ELSE <<Replacement>>)
    ELSE LET v == ByteVal(bs[1]) IN
      IF need = 0 THEN
        IF v < 128 THEN <<v>> \o Utf8Decode(Tail(bs), 0, 0, 0, 128, 191)
        ELSE IF v >= 194 /\ v <= 223 THEN Utf8Decode(Tail(bs), 1, 0, v - 192, 128, 191)
        ELSE IF v >= 224 /\ v <= 239
             THEN Utf8Decode(Tail(bs), 2, 0, v - 224,
                             IF v = 224 THEN 160 ELSE 128, IF v = 237 THEN 159 ELSE 191)
        ELSE IF v >= 240 /\ v <= 244
             THEN Utf8Decode(Tail(bs), 3, 0, v - 240,
                             IF v = 240 THEN 144 ELSE 128, IF v = 244 THEN 143 ELSE 191)
        ELSE <<Replacement>> \o Utf8Decode(Tail(bs), 0, 0, 0, 128, 191)
      ELSE IF v < lo \/ v > hi
           THEN <<Replacement>> \o Utf8Decode(bs, 0, 0, 0, 128, 191)
      ELSE IF seen + 1 = need
           THEN <<cp * 64 + (v - 128)>> \o Utf8Decode(Tail(bs), 0, 0, 0, 128, 191)
      ELSE Utf8Decode(Tail(bs), need, seen + 1, cp * 64 + (v - 128), 128, 191)

RECURSIVE FromScalars(_)
FromScalars(cs) ==
    IF cs = <<>> THEN <<>>
    ELSE IF cs[1] >= 65536
         THEN <<55296 + ((cs[1] - 65536) \div 1024), 56320 + ((cs[1] - 65536) % 1024)>>
              \o FromScalars(Tail(cs))
    ELSE <<cs[1]>> \o FromScalars(Tail(cs))

\* new TextDecoder().decode(buffer): utf-8, fatal = false, ignoreBOM = false,
\* so a byte order mark at the start of the input is consumed, not returned
TextDecode(bs) ==
    LET cs == Utf8Decode(bs, 0, 0, 0, 128, 191) IN
    FromScalars(IF cs # <<>> /\ cs[1] = BOM THEN Tail(cs) ELSE cs)

(* ------------------------------ results ------------------------------ *)
\* a settled promise: resolved with val, or rejected with the error err
Ok(v) == [ok |-> TRUE, val |-> v, err |-> "none"]
Err(e) == [ok |-> FALSE, val |-> <<>>, err |-> e]
\* crypto.subtle.decrypt rejects with OperationError when the tag does not
\* verify: the design calls it AuthenticationFailure
AuthenticationFailure == "OperationError"
\* reading a property of undefined
TypeError == "TypeError"
\* crypto.subtle.importKey rejects raw key material of a wrong length
DataError == "DataError"
\* the design's error for a buffer too short to hold the IV
MalformedEnvelope == "MalformedEnvelope"

(* ------------------------ Kyber KEM (kyber.ts) ----------------------- *)
\* Key pair k is the pair (publicKey k, privateKey k).
KeyPairs == 1..NumKeyPairs

KemCiphertext(r, pk) == [j \in 1..KemCtLen |-> Byte("kem", r, pk, j)]
KemSecret(r, pk) == [j \in 1..KeyLen |-> Byte("ss", r, pk, j)]

\* encapsulate under public key pk with the fresh randomness r
kyberEncapsulate(pk, r) == [ciphertext |-> KemCiphertext(r, pk), secret |-> KemSecret(r, pk)]

\* decapsulate never fails: for anything but an intact encapsulation under
\* the matching public key it returns a pseudo-random secret (implicit
\* rejection), which no encapsulation ever returned
kyberDecapsulate(ct, sk) ==
    IF ct # <<>> /\ ct[1].t = "kem" /\ ct = KemCiphertext(ct[1].a, sk)
    THEN KemSecret(ct[1].a, sk)
    ELSE [j \in 1..KeyLen |-> Byte("rej", 0, sk, j)]

(* ------------------- Argon2id KDF (keyDerivation.ts) ----------------- *)
Passwords == 1..NumPasswords
\* an optional argument: <<>> when left out, <<x>> when given
None == <<>>
Some(x) == <<x>>

\* an AES-GCM CryptoKey: imported raw material (pw = 0), or derived from
\* password pw and the salt mat
CryptoKey(kind, pw, mat) == [kind |-> kind, pw |-> pw, mat |-> mat]

\* utils.generateSalt
generateSalt(nonce) == RandomBytes(nonce, SaltLen)

\* derive(password, salt?) -> (key, salt): deterministic in (password, salt);
\* a salt is generated when none is given
deriveKeyFromPassword(password, saltOpt, nonce) ==
    LET salt == IF saltOpt = None THEN generateSalt(nonce) ELSE saltOpt[1] IN
    [key |-> CryptoKey("kdf", password, salt), salt |-> salt]

(* ----------------------- WebCrypto (crypto.subtle) ------------------- *)
\* utils.generateIV
generateIV(nonce) == RandomBytes(nonce, IVLen)

\* crypto.subtle.generateKey({name: 'AES-GCM', length: 256}, ...)
generateKey(nonce) == CryptoKey("raw", 0, RandomBytes(nonce, KeyLen))
\* crypto.subtle.exportKey('raw', key)
exportKey(key) == key.mat
\* crypto.subtle.importKey('raw', material, {name: 'AES-GCM'}, ...)
importKey(material) ==
    IF Len(material) \in {16, 24, 32} THEN Ok(CryptoKey("raw", 0, material)) ELSE Err(DataError)

\* AES-GCM is deterministic: the same key, IV and plaintext give the same
\* bytes.  log is the sequence of encryptions made so far; the output of an
\* encryption is named by the first entry of the log with its key, IV and
\* plaintext.
SealId(log, key, iv, pt) ==
    LET e == [key |-> key, iv |-> iv, pt |-> pt] IN
    IF \E n \in 1..Len(log) : log[n] = e
    THEN CHOOSE n \in 1..Len(log) : log[n] = e /\ \A m \in 1..(n - 1) : log[m] # e
    ELSE Len(log) + 1
Sealed(id, n) == [j \in 1..(n + TagLen) |-> Byte("ct", id, 0, j)]

\* crypto.subtle.encrypt({name: 'AES-GCM', iv}, key, data): ciphertext
\* followed by the 16-byte tag
subtleEncrypt(log, key, iv, data) ==
    [out |-> Sealed(SealId(log, key, iv, data), Len(data)),
     log |-> Append(log, [key |-> key, iv |-> iv, pt |-> data])]

\* crypto.subtle.decrypt({name: 'AES-GCM', iv}, key, data): the plaintext
\* when data is what this key and IV sealed, OperationError otherwise (also
\* when data is shorter than the tag)
subtleDecrypt(log, key, iv, data) ==
    IF Len(data) < TagLen THEN Err(AuthenticationFailure)
    ELSE LET hit == {n \in 1..Len(log) :
                        /\ log[n].key = key
                        /\ log[n].iv = iv
                        /\ data = Sealed(SealId(log, key, iv, log[n].pt), Len(log[n].pt))}
         IN IF hit = {} THEN Err(AuthenticationFailure)
            ELSE Ok(log[CHOOSE n \in hit : TRUE].pt)

(* ----------------------------- envelopes ----------------------------- *)
\* EncryptedMessage {encryptedData, kyberEncryptedSessionKey},
\* SymmetricEncryptedMessage {encryptedData, salt} and GroupEncryptedMessage
\* {encryptedData, wrappedKeys}, as one record; a field a kind does not have
\* is empty.
Envelope(kind, data, kem, salt, wks) ==
    [kind |-> kind, encryptedData |-> data, kyberEncryptedSessionKey |-> kem,
     salt |-> salt, wrappedKeys |-> wks]
WrappedKey(kem, wsk) == [kyberCipherText |-> kem, wrappedSessionKey |-> wsk]

(* ---------------------------- message.ts ------------------------------ *)
\* An encrypt operation takes the AES-GCM log and the number of random
\* draws made so far, and returns its envelope with both updated.
encryptMessage(log, rng, message, publicKey) ==
    LET kem == kyberEncapsulate(publicKey, rng + 1)
        sessionKey == importKey(kem.secret).val
        iv == generateIV(rng + 2)
        enc == subtleEncrypt(log, sessionKey, iv, TextEncode(message))
        encryptedData == concatUint8Arrays(iv, enc.out)
    IN [out |-> Envelope("message", encryptedData, kem.ciphertext, <<>>, <<>>),
        log |-> enc.log, rng |-> rng + 2]

\* decryptMessage with the rejection of crypto.subtle.decrypt caught and an
\* empty string returned in its place
decryptMessage_swallowsFailure(log, encryptedMessage, privateKey) ==
    LET encryptedData == encryptedMessage.encryptedData
        rawSessionKey == kyberDecapsulate(encryptedMessage.kyberEncryptedSessionKey, privateKey)
        sessionKey == importKey(rawSessionKey)
        iv == subarrayTo(encryptedData, IVLen)
        ciphertext == subarrayFrom(encryptedData, IVLen)
        dec == subtleDecrypt(log, sessionKey.val, iv, ciphertext)
    IN IF ~sessionKey.ok THEN Err(sessionKey.err)
       ELSE IF ~dec.ok THEN Ok(<<>>)
       ELSE Ok(TextDecode(dec.val))

decryptMessage(log, encryptedMessage, privateKey) ==
    LET encryptedData == encryptedMessage.encryptedData
        rawSessionKey == kyberDecapsulate(encryptedMessage.kyberEncryptedSessionKey, privateKey)
        sessionKey == importKey(rawSessionKey)
        iv == subarrayTo(encryptedData, IVLen)
        ciphertext == subarrayFrom(encryptedData, IVLen)
        dec == subtleDecrypt(log, sessionKey.val, iv, ciphertext)
    IN IF ~sessionKey.ok THEN Err(sessionKey.err)
       ELSE IF ~dec.ok THEN Err(dec.err)
       ELSE Ok(TextDecode(dec.val))

(* ----------------------- symmetric-message.ts ------------------------- *)
\* encryptSymmetricMessage with the IV taken from the salt instead of drawn
encryptSymmetricMessage_ivFromSalt(log, rng, message, password, saltOpt) ==
    LET drawn == IF saltOpt = None THEN 1 ELSE 0
        derivedKey == deriveKeyFromPassword(password, saltOpt, rng + 1)
        iv == subarrayTo(derivedKey.salt, IVLen)
        enc == subtleEncrypt(log, derivedKey.key, iv, TextEncode(message))
    IN [out |-> Envelope("symmetric", concatUint8Arrays(iv, enc.out), <<>>, derivedKey.salt, <<>>),
        log |-> enc.log, rng |-> rng + drawn]

\* encryptSymmetricMessage with new Uint8Array(12) as the IV, never filled
encryptSymmetricMessage_zeroIV(log, rng, message, password, saltOpt) ==
    LET drawn == IF saltOpt = None THEN 1 ELSE 0
        derivedKey == deriveKeyFromPassword(password, saltOpt, rng + 1)
        iv == [j \in 1..IVLen |-> Lit(0)]
        enc == subtleEncrypt(log, derivedKey.key, iv, TextEncode(message))
    IN [out |-> Envelope("symmetric", concatUint8Arrays(iv, enc.out), <<>>, derivedKey.salt, <<>>),
        log |-> enc.log, rng |-> rng + drawn]

\* encryptSymmetricMessage calling deriveKeyFromPassword(password) without
\* the salt argument: a salt is generated whether or not one was supplied
encryptSymmetricMessage_ignoresSalt(log, rng, message, password, saltOpt) ==
    LET derivedKey == deriveKeyFromPassword(password, None, rng + 1)
        iv == generateIV(rng + 2)
        enc == subtleEncrypt(log, derivedKey.key, iv, TextEncode(message))
    IN [out |-> Envelope("symmetric", concatUint8Arrays(iv, enc.out), <<>>, derivedKey.salt, <<>>),
        log |-> enc.log, rng |-> rng + 2]

encryptSymmetricMessage(log, rng, message, password, saltOpt) ==
    LET drawn == IF saltOpt = None THEN 1 ELSE 0
        derivedKey == deriveKeyFromPassword(password, saltOpt, rng + 1)
        iv == generateIV(rng + drawn + 1)
        enc == subtleEncrypt(log, derivedKey.key, iv, TextEncode(message))
    IN [out |-> Envelope("symmetric", concatUint8Arrays(iv, enc.out), <<>>, derivedKey.salt, <<>>),
        log |-> enc.log, rng |-> rng + drawn + 1]

\* decryptSymmetricMessage deriving the key from the salt alone: the
\* password argument is not the one handed to the derivation
decryptSymmetricMessage_ignoresPassword(log, encryptedMessage, password) ==
    LET encryptedData == encryptedMessage.encryptedData
        derivedKey == deriveKeyFromPassword(1, Some(encryptedMessage.salt), 0)
        iv == subarrayTo(encryptedData, IVLen)
        ciphertext == subarrayFrom(encryptedData, IVLen)
        dec == subtleDecrypt(log, derivedKey.key, iv, ciphertext)
    IN IF ~dec.ok THEN Err(dec.err)
       ELSE Ok(TextDecode(dec.val))

decryptSymmetricMessage(log, encryptedMessage, password) ==
    LET encryptedData == encryptedMessage.encryptedData
        derivedKey == deriveKeyFromPassword(password, Some(encryptedMessage.salt), 0)
        iv == subarrayTo(encryptedData, IVLen)
        ciphertext == subarrayFrom(encryptedData, IVLen)
        dec == subtleDecrypt(log, derivedKey.key, iv, ciphertext)
    IN IF ~dec.ok THEN Err(dec.err)
       ELSE Ok(TextDecode(dec.val))

(* ------------------------------ group.ts ------------------------------ *)
RECURSIVE wrapForRecipients_unshift(_, _, _, _, _)
\* the loop with wrappedKeys.unshift in place of wrappedKeys.push: every new
\* entry goes to the front of the array
wrapForRecipients_unshift(log, rng, rawSessionKey, publicKeys, wrappedKeys) ==
    IF publicKeys = <<>> THEN [wrappedKeys |-> wrappedKeys, log |-> log, rng |-> rng]
    ELSE LET kem == kyberEncapsulate(publicKeys[1], rng + 1)
             wrappingKey == importKey(kem.secret).val
             wrappedIv == generateIV(rng + 2)
             enc == subtleEncrypt(log, wrappingKey, wrappedIv, rawSessionKey)
         IN wrapForRecipients_unshift(enc.log, rng + 2, rawSessionKey, Tail(publicKeys),
                <<WrappedKey(kem.ciphertext, concatUint8Arrays(wrappedIv, enc.out))>>
                    \o wrappedKeys)

RECURSIVE wrapForRecipients_oneIv(_, _, _, _, _)
\* the loop with the wrapping IV generated for the first recipient only and
\* used again for every later one
wrapForRecipients_oneIv(log, rng, rawSessionKey, publicKeys, wrappedKeys) ==
    IF publicKeys = <<>> THEN [wrappedKeys |-> wrappedKeys, log |-> log, rng |-> rng]
    ELSE LET kem == kyberEncapsulate(publicKeys[1], rng + 1)
             wrappingKey == importKey(kem.secret).val
             wrappedIv == IF wrappedKeys = <<>> THEN generateIV(rng + 2)
                          ELSE subarrayTo(wrappedKeys[1].wrappedSessionKey, IVLen)
             enc == subtleEncrypt(log, wrappingKey, wrappedIv, rawSessionKey)
         IN wrapForRecipients_oneIv(enc.log, rng + 2, rawSessionKey, Tail(publicKeys),
                Append(wrappedKeys,
                       WrappedKey(kem.ciphertext, concatUint8Arrays(wrappedIv, enc.out))))

RECURSIVE wrapForRecipients(_, _, _, _, _)
\* the loop of encryptForGroup: one encapsulation and one wrapping IV for
\* each public key, in the order given
wrapForRecipients(log, rng, rawSessionKey, publicKeys, wrappedKeys) ==
    IF publicKeys = <<>> THEN [wrappedKeys |-> wrappedKeys, log |-> log, rng |-> rng]
    ELSE LET kem == kyberEncapsulate(publicKeys[1], rng + 1)
             wrappingKey == importKey(kem.secret).val
             wrappedIv == generateIV(rng + 2)
             enc == subtleEncrypt(log, wrappingKey, wrappedIv, rawSessionKey)
         IN wrapForRecipients(enc.log, rng + 2, rawSessionKey, Tail(publicKeys),
                Append(wrappedKeys,
                       WrappedKey(kem.ciphertext, concatUint8Arrays(wrappedIv, enc.out))))

\* encryptForGroup taking, as encryptMessage does, the shared secret of an
\* encapsulation (for the first recipient) as the session key
encryptForGroup_kemSessionKey(log, rng, message, publicKeys) ==
    LET sessionKey == IF publicKeys = <<>> THEN generateKey(rng + 1)
                      ELSE importKey(kyberEncapsulate(publicKeys[1], rng + 1).secret).val
        iv == generateIV(rng + 2)
        rawSessionKey == exportKey(sessionKey)
        enc == subtleEncrypt(log, sessionKey, iv, TextEncode(message))
        wrapped == wrapForRecipients(enc.log, rng + 2, rawSessionKey, publicKeys, <<>>)
    IN [out |-> Envelope("group", concatUint8Arrays(iv, enc.out), <<>>, <<>>, wrapped.wrappedKeys),
        log |-> wrapped.log, rng |-> wrapped.rng]

\* encryptForGroup with a guard that refuses an empty recipient list: nothing
\* is drawn or encrypted and no group envelope comes back
encryptForGroup_rejectsEmpty(log, rng, message, publicKeys) ==
    IF publicKeys = <<>>
    THEN [out |-> Envelope("none", <<>>, <<>>, <<>>, <<>>), log |-> log, rng |-> rng]
    ELSE
    LET sessionKey == generateKey(rng + 1)
        iv == generateIV(rng + 2)
        rawSessionKey == exportKey(sessionKey)
        enc == subtleEncrypt(log, sessionKey, iv, TextEncode(message))
        wrapped == wrapForRecipients(enc.log, rng + 2, rawSessionKey, publicKeys, <<>>)
    IN [out |-> Envelope("group", concatUint8Arrays(iv, enc.out), <<>>, <<>>, wrapped.wrappedKeys),
        log |-> wrapped.log, rng |-> wrapped.rng]

encryptForGroup(log, rng, message, publicKeys) ==
    LET sessionKey == generateKey(rng + 1)
        iv == generateIV(rng + 2)
        rawSessionKey == exportKey(sessionKey)
        enc == subtleEncrypt(log, sessionKey, iv, TextEncode(message))
        wrapped == wrapForRecipients(enc.log, rng + 2, rawSessionKey, publicKeys, <<>>)
    IN [out |-> Envelope("group", concatUint8Arrays(iv, enc.out), <<>>, <<>>, wrapped.wrappedKeys),
        log |-> wrapped.log, rng |-> wrapped.rng]

\* decryptFromGroup trying every entry of wrappedKeys with the private key,
\* whatever recipientIndex says
decryptFromGroup_anyEntry(log, encrypted, privateKey, recipientIndex) ==
    LET unwrap(n) ==
            LET w == encrypted.wrappedKeys[n] IN
            subtleDecrypt(log, importKey(kyberDecapsulate(w.kyberCipherText, privateKey)).val,
                          subarrayTo(w.wrappedSessionKey, IVLen),
                          subarrayFrom(w.wrappedSessionKey, IVLen))
        good == {n \in 1..Len(encrypted.wrappedKeys) : unwrap(n).ok}
        sessionKey == importKey(unwrap(CHOOSE n \in good : TRUE).val)
        iv == subarrayTo(encrypted.encryptedData, IVLen)
        ciphertext == subarrayFrom(encrypted.encryptedData, IVLen)
        dec == subtleDecrypt(log, sessionKey.val, iv, ciphertext)
    IN IF good = {} THEN Err(AuthenticationFailure)
       ELSE IF ~sessionKey.ok THEN Err(sessionKey.err)
       ELSE IF ~dec.ok THEN Err(dec.err)
       ELSE Ok(TextDecode(dec.val))

\* decryptFromGroup with a catch around the payload decryption that returns
\* the empty string when the tag does not verify
decryptFromGroup_catchesFailure(log, encrypted, privateKey, recipientIndex) ==
    IF recipientIndex < 0 \/ recipientIndex >= Len(encrypted.wrappedKeys)
    THEN Err(TypeError)
    ELSE
    LET myWrappedKey == encrypted.wrappedKeys[recipientIndex + 1]
        sharedSecret == kyberDecapsulate(myWrappedKey.kyberCipherText, privateKey)
        wrappingKey == importKey(sharedSecret)
        wrappingIv == subarrayTo(myWrappedKey.wrappedSessionKey, IVLen)
        encryptedSessionKey == subarrayFrom(myWrappedKey.wrappedSessionKey, IVLen)
        rawSessionKey == subtleDecrypt(log, wrappingKey.val, wrappingIv, encryptedSessionKey)
        sessionKey == importKey(rawSessionKey.val)
        iv == subarrayTo(encrypted.encryptedData, IVLen)
        ciphertext == subarrayFrom(encrypted.encryptedData, IVLen)
        dec == subtleDecrypt(log, sessionKey.val, iv, ciphertext)
    IN IF ~wrappingKey.ok THEN Err(wrappingKey.err)
       ELSE IF ~rawSessionKey.ok THEN Err(rawSessionKey.err)
       ELSE IF ~sessionKey.ok THEN Err(sessionKey.err)
       ELSE IF ~dec.ok THEN Ok(<<>>)
       ELSE Ok(TextDecode(dec.val))

\* decryptFromGroup that, when the entry at recipientIndex does not unwrap
\* under the private key, goes on to the first other entry that does
decryptFromGroup_fallsBack(log, encrypted, privateKey, recipientIndex) ==
    IF recipientIndex < 0 \/ recipientIndex >= Len(encrypted.wrappedKeys)
    THEN Err(TypeError)
    ELSE
    LET unwrap(n) ==
            LET w == encrypted.wrappedKeys[n] IN
            subtleDecrypt(log, importKey(kyberDecapsulate(w.kyberCipherText, privateKey)).val,
                          subarrayTo(w.wrappedSessionKey, IVLen),
                          subarrayFrom(w.wrappedSessionKey, IVLen))
        good == {n \in 1..Len(encrypted.wrappedKeys) : unwrap(n).ok}
        rawSessionKey == IF unwrap(recipientIndex + 1).ok \/ good = {}
                         THEN unwrap(recipientIndex + 1)
                         ELSE unwrap(CHOOSE n \in good : \A m \in good : n <= m)
        sessionKey == importKey(rawSessionKey.val)
        iv == subarrayTo(encrypted.encryptedData, IVLen)
        ciphertext == subarrayFrom(encrypted.encryptedData, IVLen)
        dec == subtleDecrypt(log, sessionKey.val, iv, ciphertext)
    IN IF ~rawSessionKey.ok THEN Err(rawSessionKey.err)
       ELSE IF ~sessionKey.ok THEN Err(sessionKey.err)
       ELSE IF ~dec.ok THEN Err(dec.err)
       ELSE Ok(TextDecode(dec.val))

\* recipientIndex counts from 0; wrappedKeys[recipientIndex] is undefined
\* outside the array, and reading its kyberCipherText throws
decryptFromGroup(log, encrypted, privateKey, recipientIndex) ==
    IF recipientIndex < 0 \/ recipientIndex >= Len(encrypted.wrappedKeys)
    THEN Err(TypeError)
    ELSE
    LET myWrappedKey == encrypted.wrappedKeys[recipientIndex + 1]
        sharedSecret == kyberDecapsulate(myWrappedKey.kyberCipherText, privateKey)
        wrappingKey == importKey(sharedSecret)
        wrappingIv == subarrayTo(myWrappedKey.wrappedSessionKey, IVLen)
        encryptedSessionKey == subarrayFrom(myWrappedKey.wrappedSessionKey, IVLen)
        rawSessionKey == subtleDecrypt(log, wrappingKey.val, wrappingIv, encryptedSessionKey)
        sessionKey == importKey(rawSessionKey.val)
        iv == subarrayTo(encrypted.encryptedData, IVLen)
        ciphertext == subarrayFrom(encrypted.encryptedData, IVLen)
        dec == subtleDecrypt(log, sessionKey.val, iv, ciphertext)
    IN IF ~wrappingKey.ok THEN Err(wrappingKey.err)
       ELSE IF ~rawSessionKey.ok THEN Err(rawSessionKey.err)
       ELSE IF ~sessionKey.ok THEN Err(sessionKey.err)
       ELSE IF ~dec.ok THEN Err(dec.err)
       ELSE Ok(TextDecode(dec.val))

(* --------------------------- serialization.ts ------------------------- *)
\* A buffer handed to the serialization functions is a sequence of byte
\* values 0..255, a base64 string a sequence of character codes.
PublicKeyLen == 1568
PrivateKeyLen == 3168

\* kyber.generateKeyPair: key pair k as bytes
generateKeyPair(k) ==
    [publicKey |-> [j \in 1..PublicKeyLen |-> (7 * j + k) % 256],
     privateKey |-> [j \in 1..PrivateKeyLen |-> (11 * j + 3 * k) % 256]]

\* the base64 alphabet A-Z a-z 0-9 + / and the padding character =
Base64Pad == 61
Base64Char(v) ==
    IF v < 26 THEN 65 + v
    ELSE IF v < 52 THEN 97 + (v - 26)
    ELSE IF v < 62 THEN 48 + (v - 52)
    ELSE IF v = 62 THEN 43 ELSE 47
Base64Value(ch) ==
    IF ch >= 65 /\ ch <= 90 THEN ch - 65
    ELSE IF ch >= 97 /\ ch <= 122 THEN (ch - 97) + 26
    ELSE IF ch >= 48 /\ ch <= 57 THEN (ch - 48) + 52
    ELSE IF ch = 43 THEN 62 ELSE 63

\* utils.bytesToBase64: every three bytes give four characters, a last
\* group of one or two bytes is padded with =
bytesToBase64(bytes) ==
    LET n == Len(bytes)
        at(q) == IF q <= n THEN bytes[q] ELSE 0 IN
    [p \in 1..(4 * ((n + 2) \div 3)) |->
        LET g == (p - 1) \div 4
            k == (p - 1) % 4
            bits == (at((3 * g) + 1) * 65536) + (at((3 * g) + 2) * 256) + at((3 * g) + 3)
            have == IF (3 * g) + 3 <= n THEN 3 ELSE n - (3 * g) IN
        IF k > have THEN Base64Pad ELSE Base64Char((bits \div (64 ^ (3 - k))) % 64)]

\* utils.base64ToBytes: the inverse, for a padded base64 string
base64ToBytes(base64) ==
    LET m == Len(base64)
        pad == (IF m > 0 /\ base64[m] = Base64Pad THEN 1 ELSE 0)
               + (IF m > 1 /\ base64[m - 1] = Base64Pad THEN 1 ELSE 0)
        val(p) == IF base64[p] = Base64Pad THEN 0 ELSE Base64Value(base64[p]) IN
    [q \in 1..((3 * (m \div 4)) - pad) |->
        LET g == (q - 1) \div 3
            k == (q - 1) % 3
            bits == (val((4 * g) + 1) * 262144) + (val((4 * g) + 2) * 4096)
                    + (val((4 * g) + 3) * 64) + val((4 * g) + 4) IN
        (bits \div (256 ^ (2 - k))) % 256]

exportBytes(data) == bytesToBase64(data)
importBytes(base64) == base64ToBytes(base64)

\* exportKeyPair with the two fields filled from each other's key
exportKeyPair_swapped(keyPair) ==
    [publicKey |-> exportBytes(keyPair.privateKey),
     privateKey |-> exportBytes(keyPair.publicKey)]

exportKeyPair(keyPair) ==
    [publicKey |-> exportBytes(keyPair.publicKey),
     privateKey |-> exportBytes(keyPair.privateKey)]
importKeyPair(encoded) ==
    [publicKey |-> importBytes(encoded.publicKey),
     privateKey |-> importBytes(encoded.privateKey)]

(* ------------- chunked file envelope (encryption.ts, decryption.ts) --- *)
\* The header of a file envelope: the Kyber ciphertext of the session key,
\* then the chunk size and the number of chunks, one field each.
HeaderLen == KemCtLen + 2
\* a chunk as it lies in the envelope: IV, ciphertext, tag
PackedLen(n) == IVLen + n + TagLen
\* the IV of chunk number n: the random base of the file with the counter n
chunkIV(base, n) == [j \in 1..IVLen |-> Byte("rnd", base, n, j)]

RECURSIVE encryptChunks(_, _, _, _, _, _)
\* the chunks of fileData from chunk number n on, each encrypted under the
\* session key with its own IV and appended to body
encryptChunks(log, sessionKey, base, fileData, n, body) ==
    IF fileData = <<>> THEN [out |-> body, log |-> log]
    ELSE LET iv == chunkIV(base, n)
             enc == subtleEncrypt(log, sessionKey, iv, LitBytes(subarrayTo(fileData, ChunkSize)))
         IN encryptChunks(enc.log, sessionKey, base, subarrayFrom(fileData, ChunkSize), n + 1,
                          concatUint8Arrays(body, concatUint8Arrays(iv, enc.out)))

encryptFile(log, rng, fileData, publicKey) ==
    LET kem == kyberEncapsulate(publicKey, rng + 1)
        sessionKey == importKey(kem.secret).val
        count == (Len(fileData) + (ChunkSize - 1)) \div ChunkSize
        header == concatUint8Arrays(kem.ciphertext, <<Lit(ChunkSize), Lit(count)>>)
        chunks == encryptChunks(log, sessionKey, rng + 2, fileData, 0, <<>>)
    IN [out |-> Envelope("file", concatUint8Arrays(header, chunks.out), <<>>, <<>>, <<>>),
        log |-> chunks.log, rng |-> rng + 2]

RECURSIVE decryptChunks(_, _, _, _, _, _)
\* the next left chunks of body decrypted in order and appended to out; a
\* chunk the header declares and the buffer does not hold is an error
decryptChunks(log, sessionKey, body, chunkSize, left, out) ==
    IF left = 0 THEN Ok(out)
    ELSE IF Len(body) < PackedLen(0) THEN Err(MalformedEnvelope)
    ELSE LET chunk == subarrayTo(body, PackedLen(chunkSize))
             dec == subtleDecrypt(log, sessionKey, subarrayTo(chunk, IVLen),
                                  subarrayFrom(chunk, IVLen))
         IN IF ~dec.ok THEN Err(dec.err)
            ELSE decryptChunks(log, sessionKey, subarrayFrom(body, PackedLen(chunkSize)),
                               chunkSize, left - 1,
                               out \o [j \in 1..Len(dec.val) |-> ByteVal(dec.val[j])])

\* decryptFile reading chunks as long as the buffer holds any, whatever
\* number of chunks the header declares
decryptFile_chunksPresent(log, encryptedData, privateKey) ==
    IF Len(encryptedData) < HeaderLen THEN Err(MalformedEnvelope)
    ELSE LET sessionKey == importKey(kyberDecapsulate(subarrayTo(encryptedData, KemCtLen),
                                                      privateKey))
             chunkSize == ByteVal(encryptedData[KemCtLen + 1])
             body == subarrayFrom(encryptedData, HeaderLen)
             present == (Len(body) + (PackedLen(chunkSize) - 1)) \div PackedLen(chunkSize)
         IN IF ~sessionKey.ok THEN Err(sessionKey.err)
            ELSE decryptChunks(log, sessionKey.val, body, chunkSize, present, <<>>)

decryptFile(log, encryptedData, privateKey) ==
    IF Len(encryptedData) < HeaderLen THEN Err(MalformedEnvelope)
    ELSE LET sessionKey == importKey(kyberDecapsulate(subarrayTo(encryptedData, KemCtLen),
                                                      privateKey))
             chunkSize == ByteVal(encryptedData[KemCtLen + 1])
             count == ByteVal(encryptedData[KemCtLen + 2])
             body == subarrayFrom(encryptedData, HeaderLen)
         IN IF ~sessionKey.ok THEN Err(sessionKey.err)
            ELSE decryptChunks(log, sessionKey.val, body, chunkSize, count, <<>>)

(* ------------------------------- inputs ------------------------------- *)
\* the plaintexts the callers choose from: the empty string, "A" with a
\* two-byte character, a surrogate pair (four bytes), a string that starts
\* with U+FEFF, and a lone surrogate
Plaintexts == {<<>>, <<65, 233>>, <<55357, 56960>>, <<65279, 65>>, <<56960>>}

\* the salt number s a caller supplies: 16 bytes of the caller's own
SuppliedSalt(s) == [j \in 1..SaltLen |-> Lit(s)]
SaltChoices == {None} \cup {Some(SuppliedSalt(s)) : s \in 1..NumSalts}

RECURSIVE SeqsUpTo(_, _)
SeqsUpTo(S, n) ==
    IF n = 0 THEN {<<>>}
    ELSE LET shorter == SeqsUpTo(S, n - 1) IN
         shorter \cup {Append(q, x) : q \in shorter, x \in S}
RecipientLists == SeqsUpTo(KeyPairs, MaxRecipients)

\* the buffers handed to exportBytes: every buffer of up to MaxBufLen bytes
\* out of the lowest, the highest and two middle byte values
BufferBytes == {0, 1, 128, 255}
Buffers == SeqsUpTo(BufferBytes, MaxBufLen)

\* the plaintexts of the calls that run step by step
ConcurrentPlaintexts == {<<65279, 65>>}

\* the files handed to encryptFile: up to MaxFileLen bytes, so from no
\* chunk to several
FileBytes == {7, 200}
Files == SeqsUpTo(FileBytes, MaxFileLen)

\* the recipient lists of the envelopes whose wrappedKeys are rearranged: one
\* entry more than MaxRecipients, so that beside a recipient's own entry
\* there are two others to exchange
RearrangedLists == SeqsUpTo(KeyPairs, MaxRecipients + 1)
RearrangedPlaintexts == {<<65, 233>>}

\* the plaintexts of the envelopes whose fields are recombined: two
\* different strings that TextDecoder returns as they were encoded
SplicedPlaintexts == {<<65>>, <<66, 67>>}

(* ------------------------------- state -------------------------------- *)
VARIABLES
    rng,      \* number of random draws made so far
    aeadLog,  \* the AES-GCM encryptions made so far: [key, iv, pt]
    calls,    \* the encrypt calls made so far, with their envelopes
    wire,     \* <<>>, or <<e>> for an envelope changed after encryption
    decs,     \* the decrypt calls made so far, with their outcomes
    running,  \* the calls that run step by step, one frame for each
    ser       \* the value on its way through the serialization functions
vars == <<rng, aeadLog, calls, wire, decs, running, ser>>

Call(op, message, pk, pw, saltOpt, pks, out) ==
    [op |-> op, message |-> message, pk |-> pk, pw |-> pw, saltOpt |-> saltOpt,
     pks |-> pks, out |-> out]
\* an envelope handed to a decrypt operation: the output of call src, with
\* the field tam changed at byte pos of entry ent ("none": as it was made)
Presented(env, src, tam, ent, pos) ==
    [env |-> env, src |-> src, tam |-> tam, ent |-> ent, pos |-> pos]
Intact == {Presented(calls[c].out, c, "none", 0, 0) : c \in 1..Len(calls)}
Presentable == Intact \cup {wire[n] : n \in 1..Len(wire)}
Dec(op, e, sk, pw, idx, res) ==
    [op |-> op, src |-> e.src, tam |-> e.tam, ent |-> e.ent, pos |-> e.pos,
     sk |-> sk, pw |-> pw, idx |-> idx, res |-> res]

\* the steps taken so far
OpsDone == Len(calls) + Len(wire) + Len(decs)

\* a value in the serialization functions: data is what was handed in (the
\* buffer, or the public and the private key of a key pair), exported what
\* the export function returned, imported what the import function made of
\* that
KeyPairOf(q) == [publicKey |-> q[1], privateKey |-> q[2]]
FieldsOf(keyPair) == <<keyPair.publicKey, keyPair.privateKey>>
Serializing(op, data) ==
    [op |-> op, pc |-> "start", data |-> data, exported |-> <<>>, imported |-> <<>>]
NotSerializing == Serializing("none", <<>>)

Init ==
    /\ rng = 0
    /\ aeadLog = <<>>
    /\ calls = <<>>
    /\ wire = <<>>
    /\ decs = <<>>
    /\ running = <<>>
    /\ ser = NotSerializing

(* --------------------------- encrypt calls ---------------------------- *)
Made(call, r) ==
    /\ calls' = Append(calls, [call EXCEPT !.out = r.out])
    /\ aeadLog' = r.log
    /\ rng' = r.rng
    /\ UNCHANGED <<wire, decs, running, ser>>

EncryptMessage ==
    /\ Len(calls) < MaxEnc
    /\ OpsDone < MaxOps
    /\ \E m \in Plaintexts, k \in KeyPairs :
          Made(Call("encryptMessage", m, k, 0, None, <<>>, <<>>),
               encryptMessage(aeadLog, rng, m, k))

EncryptSymmetricMessage ==
    /\ Len(calls) < MaxEnc
    /\ OpsDone < MaxOps
    /\ \E m \in Plaintexts, w \in Passwords, s \in SaltChoices :
          Made(Call("encryptSymmetricMessage", m, 0, w, s, <<>>, <<>>),
               encryptSymmetricMessage(aeadLog, rng, m, w, s))

EncryptForGroup ==
    /\ Len(calls) < MaxEnc
    /\ OpsDone < MaxOps
    /\ \E m \in Plaintexts, ks \in RecipientLists :
          Made(Call("encryptForGroup", m, 0, 0, None, ks, <<>>),
               encryptForGroup(aeadLog, rng, m, ks))

(* --------------------------- decrypt calls ---------------------------- *)
Answered(d) ==
    /\ decs' = Append(decs, d)
    /\ UNCHANGED <<rng, aeadLog, calls, wire, running, ser>>

DecryptMessage ==
    /\ OpsDone < MaxOps
    /\ \E e \in Presentable, sk \in KeyPairs :
          /\ e.env.kind = "message"
          /\ Answered(Dec("decryptMessage", e, sk, 0, 0, decryptMessage(aeadLog, e.env, sk)))

DecryptSymmetricMessage ==
    /\ OpsDone < MaxOps
    /\ \E e \in Presentable, w \in Passwords :
          /\ e.env.kind = "symmetric"
          /\ Answered(Dec("decryptSymmetricMessage", e, 0, w, 0,
                          decryptSymmetricMessage(aeadLog, e.env, w)))

DecryptFromGroup ==
    /\ OpsDone < MaxOps
    /\ \E e \in Presentable, sk \in KeyPairs, i \in (-1)..MaxRecipients :
          /\ e.env.kind = "group"
          /\ Answered(Dec("decryptFromGroup", e, sk, 0, i,
                          decryptFromGroup(aeadLog, e.env, sk, i)))

Next ==
    \/ EncryptMessage
    \/ EncryptSymmetricMessage
    \/ EncryptForGroup
    \/ DecryptMessage
    \/ DecryptSymmetricMessage
    \/ DecryptFromGroup

Spec == Init /\ [][Next]_vars

(* -------------------- envelopes changed in transit -------------------- *)
\* one byte of a buffer changed by the difference delta
Flip(buf, pos, delta) == [buf EXCEPT ![pos].d = delta]
Deltas == 1..MaxDelta

Changed(e) ==
    /\ wire = <<>>
    /\ OpsDone < MaxOps
    /\ wire' = <<e>>
    /\ UNCHANGED <<rng, aeadLog, calls, decs, running, ser>>

\* a byte of the packed payload (IV, ciphertext or tag) is changed
TamperEncryptedData ==
    \E c \in 1..Len(calls) : \E pos \in 1..Len(calls[c].out.encryptedData), delta \in Deltas :
        Changed(Presented([calls[c].out EXCEPT !.encryptedData = Flip(@, pos, delta)],
                          c, "encryptedData", 0, pos))

\* a byte of the Kyber ciphertext of a message envelope is changed
TamperSessionKey ==
    \E c \in 1..Len(calls) : \E pos \in 1..Len(calls[c].out.kyberEncryptedSessionKey), delta \in Deltas :
        Changed(Presented([calls[c].out EXCEPT !.kyberEncryptedSessionKey = Flip(@, pos, delta)],
                          c, "kyberEncryptedSessionKey", 0, pos))

\* a byte of the salt of a symmetric envelope is changed
TamperSalt ==
    \E c \in 1..Len(calls) : \E pos \in 1..Len(calls[c].out.salt), delta \in Deltas :
        Changed(Presented([calls[c].out EXCEPT !.salt = Flip(@, pos, delta)],
                          c, "salt", 0, pos))

\* a byte of the Kyber ciphertext of one entry of a group envelope is changed
TamperKyberCipherText ==
    \E c \in 1..Len(calls) : \E n \in 1..Len(calls[c].out.wrappedKeys) :
      \E pos \in 1..Len(calls[c].out.wrappedKeys[n].kyberCipherText), delta \in Deltas :
        Changed(Presented([calls[c].out EXCEPT !.wrappedKeys[n].kyberCipherText = Flip(@, pos, delta)],
                          c, "kyberCipherText", n, pos))

\* a byte of the wrapped session key of one entry of a group envelope is changed
TamperWrappedSessionKey ==
    \E c \in 1..Len(calls) : \E n \in 1..Len(calls[c].out.wrappedKeys) :
      \E pos \in 1..Len(calls[c].out.wrappedKeys[n].wrappedSessionKey), delta \in Deltas :
        Changed(Presented([calls[c].out EXCEPT !.wrappedKeys[n].wrappedSessionKey = Flip(@, pos, delta)],
                          c, "wrappedSessionKey", n, pos))

\* the packed payload is cut to its first keep bytes
TruncateEncryptedData ==
    \E c \in 1..Len(calls) : \E keep \in 0..(Len(calls[c].out.encryptedData) - 1) :
        Changed(Presented([calls[c].out EXCEPT !.encryptedData = SubSeq(@, 1, keep)],
                          c, "truncatedData", 0, keep))

\* the wrapped session key of one entry of a group envelope is cut to its
\* first keep bytes
TruncateWrappedSessionKey ==
    \E c \in 1..Len(calls) : \E n \in 1..Len(calls[c].out.wrappedKeys) :
      \E keep \in 0..(Len(calls[c].out.wrappedKeys[n].wrappedSessionKey) - 1) :
        Changed(Presented([calls[c].out EXCEPT !.wrappedKeys[n].wrappedSessionKey = SubSeq(@, 1, keep)],
                          c, "truncatedKey", n, keep))

\* one envelope is made, changed in one place, and handed to decrypt calls
NextTamper ==
    \/ calls = <<>> /\ EncryptMessage
    \/ calls = <<>> /\ EncryptSymmetricMessage
    \/ calls = <<>> /\ EncryptForGroup
    \/ TamperEncryptedData
    \/ TamperSessionKey
    \/ TamperSalt
    \/ TamperKyberCipherText
    \/ TamperWrappedSessionKey
    \/ TruncateEncryptedData
    \/ TruncateWrappedSessionKey
    \/ DecryptMessage
    \/ DecryptSymmetricMessage
    \/ DecryptFromGroup

SpecTamper == Init /\ [][NextTamper]_vars

(* ------------------- values through serialization --------------------- *)
\* the state before a serialization round trip: a buffer, or a key pair
\* of generateKeyPair, is about to be exported
InitSerial ==
    /\ rng = 0
    /\ aeadLog = <<>>
    /\ calls = <<>>
    /\ wire = <<>>
    /\ decs = <<>>
    /\ running = <<>>
    /\ ser \in {Serializing("bytes", <<b>>) : b \in Buffers}
               \cup {Serializing("keyPair", FieldsOf(generateKeyPair(k))) : k \in KeyPairs}

Serialized(next) ==
    /\ ser' = next
    /\ UNCHANGED <<rng, aeadLog, calls, wire, decs, running>>

ExportBytes ==
    /\ ser.op = "bytes" /\ ser.pc = "start"
    /\ Serialized([ser EXCEPT !.pc = "exported", !.exported = <<exportBytes(ser.data[1])>>])

ImportBytes ==
    /\ ser.op = "bytes" /\ ser.pc = "exported"
    /\ Serialized([ser EXCEPT !.pc = "imported", !.imported = <<importBytes(ser.exported[1])>>])

ExportKeyPair ==
    /\ ser.op = "keyPair" /\ ser.pc = "start"
    /\ Serialized([ser EXCEPT !.pc = "exported", !.exported = FieldsOf(exportKeyPair(KeyPairOf(ser.data)))])

ImportKeyPair ==
    /\ ser.op = "keyPair" /\ ser.pc = "exported"
    /\ Serialized([ser EXCEPT !.pc = "imported", !.imported = FieldsOf(importKeyPair(KeyPairOf(ser.exported)))])

NextSerial ==
    \/ ExportBytes
    \/ ImportBytes
    \/ ExportKeyPair
    \/ ImportKeyPair

SpecSerial == InitSerial /\ [][NextSerial]_vars

(* ---------------------------- file envelopes -------------------------- *)
EncryptFile ==
    /\ Len(calls) < MaxEnc
    /\ OpsDone < MaxOps
    /\ \E f \in Files, k \in KeyPairs :
          Made(Call("encryptFile", f, k, 0, None, <<>>, <<>>),
               encryptFile(aeadLog, rng, f, k))

\* the number of chunks of the file of an encryptFile call
ChunksOf(call) == (Len(call.message) + (ChunkSize - 1)) \div ChunkSize

\* trailing chunks are removed from a file envelope: its first keep chunks
\* stay, with the header as it was
TruncateChunks ==
    \E c \in 1..Len(calls) :
        /\ calls[c].op = "encryptFile"
        /\ \E keep \in 0..(ChunksOf(calls[c]) - 1) :
              Changed(Presented([calls[c].out EXCEPT !.encryptedData =
                                    SubSeq(@, 1, HeaderLen + (keep * PackedLen(ChunkSize)))],
                                c, "truncatedChunks", 0, keep))

DecryptFile ==
    /\ OpsDone < MaxOps
    /\ \E e \in Presentable, sk \in KeyPairs :
          /\ e.env.kind = "file"
          /\ Answered(Dec("decryptFile", e, sk, 0, 0,
                          decryptFile(aeadLog, e.env.encryptedData, sk)))

\* one file is encrypted, may lose trailing chunks, and is decrypted
NextFile ==
    \/ calls = <<>> /\ EncryptFile
    \/ TruncateChunks
    \/ DecryptFile

SpecFile == Init /\ [][NextFile]_vars

(* ------------------ wrappedKeys rearranged in transit ----------------- *)
\* up to MaxEnc group envelopes are made, the wrappedKeys of one of them are
\* changed in one way, and the changed envelope is handed to decryptFromGroup
EncryptForGroupOfAny ==
    /\ Len(calls) < MaxEnc
    /\ wire = <<>>
    /\ \E m \in RearrangedPlaintexts, ks \in RearrangedLists :
          Made(Call("encryptForGroup", m, 0, 0, None, ks, <<>>),
               encryptForGroup(aeadLog, rng, m, ks))

Rearranged(e) ==
    /\ wire = <<>>
    /\ wire' = <<e>>
    /\ UNCHANGED <<rng, aeadLog, calls, decs, running, ser>>

\* entry n of an envelope is replaced by an entry of the same or of another
\* envelope
ReplaceWrappedKey ==
    \E c, c2 \in 1..Len(calls) :
      \E n \in 1..Len(calls[c].out.wrappedKeys), m \in 1..Len(calls[c2].out.wrappedKeys) :
        /\ c # c2 \/ n # m
        /\ Rearranged(Presented([calls[c].out EXCEPT
                                    !.wrappedKeys[n] = calls[c2].out.wrappedKeys[m]],
                                c, "replacedEntry", n, 0))

\* entries n and m of an envelope change places
SwapWrappedKeys ==
    \E c \in 1..Len(calls) : \E n, m \in 1..Len(calls[c].out.wrappedKeys) :
        /\ n < m
        /\ Rearranged(Presented([calls[c].out EXCEPT
                                    !.wrappedKeys[n] = calls[c].out.wrappedKeys[m],
                                    !.wrappedKeys[m] = calls[c].out.wrappedKeys[n]],
                                c, "swappedEntries", n, m))

\* the first byte of the Kyber ciphertext of entry n is changed
CorruptKyberCipherText ==
    \E c \in 1..Len(calls) : \E n \in 1..Len(calls[c].out.wrappedKeys) :
        Rearranged(Presented([calls[c].out EXCEPT !.wrappedKeys[n].kyberCipherText = Flip(@, 1, 1)],
                             c, "kyberCipherText", n, 1))

\* a byte of the wrapped session key of entry n is changed: the first of
\* the IV, the first of the ciphertext or the last of the tag
CorruptWrappedSessionKey ==
    \E c \in 1..Len(calls) : \E n \in 1..Len(calls[c].out.wrappedKeys) :
      \E pos \in {1, IVLen + 1, Len(calls[c].out.wrappedKeys[n].wrappedSessionKey)} :
        Rearranged(Presented([calls[c].out EXCEPT !.wrappedKeys[n].wrappedSessionKey = Flip(@, pos, 1)],
                             c, "wrappedSessionKey", n, pos))

DecryptRearranged ==
    /\ wire # <<>>
    /\ decs = <<>>
    /\ wire[1].env.kind = "group"
    /\ \E sk \in KeyPairs, i \in (-1)..(MaxRecipients + 1) :
          Answered(Dec("decryptFromGroup", wire[1], sk, 0, i,
                       decryptFromGroup(aeadLog, wire[1].env, sk, i)))

NextRearranged ==
    \/ EncryptForGroupOfAny
    \/ ReplaceWrappedKey
    \/ SwapWrappedKeys
    \/ CorruptKyberCipherText
    \/ CorruptWrappedSessionKey
    \/ DecryptRearranged

SpecRearranged == Init /\ [][NextRearranged]_vars

(* ------------------ envelopes put together from parts ---------------- *)
\* up to MaxEnc envelopes are made, one envelope is put together from
\* fields of theirs, and that envelope is handed to a decrypt function
EncryptMessageToSplice ==
    /\ Len(calls) < MaxEnc
    /\ wire = <<>>
    /\ \E m \in SplicedPlaintexts, k \in KeyPairs :
          Made(Call("encryptMessage", m, k, 0, None, <<>>, <<>>),
               encryptMessage(aeadLog, rng, m, k))

EncryptSymmetricMessageToSplice ==
    /\ Len(calls) < MaxEnc
    /\ wire = <<>>
    /\ \E m \in SplicedPlaintexts, w \in Passwords, s \in SaltChoices :
          Made(Call("encryptSymmetricMessage", m, 0, w, s, <<>>, <<>>),
               encryptSymmetricMessage(aeadLog, rng, m, w, s))

EncryptForGroupToSplice ==
    /\ Len(calls) < MaxEnc
    /\ wire = <<>>
    /\ \E m \in SplicedPlaintexts, ks \in RecipientLists :
          Made(Call("encryptForGroup", m, 0, 0, None, ks, <<>>),
               encryptForGroup(aeadLog, rng, m, ks))

\* the encryptedData of call c with every other field (the Kyber ciphertext,
\* the salt or the wrappedKeys) of the envelope of another call c2
SpliceEncryptedData ==
    \E c, c2 \in 1..Len(calls) :
        /\ c # c2
        /\ Rearranged(Presented([calls[c2].out EXCEPT
                                    !.encryptedData = calls[c].out.encryptedData],
                                c, "splicedData", c2, 0))

\* entry n of the wrappedKeys of call c as a message envelope: its
\* wrappedSessionKey as encryptedData, its kyberCipherText as
\* kyberEncryptedSessionKey
PresentWrappedKeyAsMessage ==
    \E c \in 1..Len(calls) : \E n \in 1..Len(calls[c].out.wrappedKeys) :
        LET w == calls[c].out.wrappedKeys[n] IN
        Rearranged(Presented(Envelope("message", w.wrappedSessionKey, w.kyberCipherText,
                                      <<>>, <<>>),
                             c, "wrappedKeyAsMessage", n, 0))

DecryptSplicedMessage ==
    /\ wire # <<>>
    /\ decs = <<>>
    /\ wire[1].env.kind = "message"
    /\ \E sk \in KeyPairs :
          Answered(Dec("decryptMessage", wire[1], sk, 0, 0,
                       decryptMessage(aeadLog, wire[1].env, sk)))

DecryptSplicedSymmetricMessage ==
    /\ wire # <<>>
    /\ decs = <<>>
    /\ wire[1].env.kind = "symmetric"
    /\ \E w \in Passwords :
          Answered(Dec("decryptSymmetricMessage", wire[1], 0, w, 0,
                       decryptSymmetricMessage(aeadLog, wire[1].env, w)))

NextSplice ==
    \/ EncryptMessageToSplice
    \/ EncryptSymmetricMessageToSplice
    \/ EncryptForGroupToSplice
    \/ SpliceEncryptedData
    \/ ReplaceWrappedKey
    \/ PresentWrappedKeyAsMessage
    \/ DecryptSplicedMessage
    \/ DecryptSplicedSymmetricMessage
    \/ DecryptRearranged

SpecSplice == Init /\ [][NextSplice]_vars

(* ------------------- calls running step by step ----------------------- *)
\* An async function runs from one await to the next without interruption;
\* between two awaits of a call any other call may run.  A frame is one
\* call in progress: its arguments, the await it is waiting at (pc), its
\* local constants (under the names they have in the source), and, when it
\* is done, what it returned (out for an envelope, res for a decryption).
NoKey == CryptoKey("none", 0, <<>>)
NoEnvelope == Envelope("none", <<>>, <<>>, <<>>, <<>>)
Pending == [ok |-> FALSE, val |-> <<>>, err |-> "pending"]

Frame(op, pc, message, pk, pw, saltOpt, pks, e, sk, idx) ==
    [op |-> op, pc |-> pc, message |-> message, pk |-> pk, pw |-> pw,
     saltOpt |-> saltOpt, pks |-> pks, e |-> e, sk |-> sk, idx |-> idx,
     kyberEncryptedSessionKey |-> <<>>, sharedSecret |-> <<>>, wrappingKey |-> NoKey,
     wrappedIv |-> <<>>, rawSessionKey |-> <<>>, sessionKey |-> NoKey, iv |-> <<>>,
     salt |-> <<>>, encryptedMessage |-> <<>>, wrappedKeys |-> <<>>,
     out |-> NoEnvelope, res |-> Pending,
     drawn |-> 0, trace |-> <<>>]
\* the frame of an encrypt call and of a decrypt call at its first await
EncryptFrame(op, pc, message, pk, pw, saltOpt, pks) ==
    Frame(op, pc, message, pk, pw, saltOpt, pks, Presented(NoEnvelope, 0, "none", 0, 0), 0, 0)
DecryptFrame(op, pc, e, sk, pw, idx) ==
    Frame(op, pc, <<>>, 0, pw, None, <<>>, e, sk, idx)

\* the frame with the await it was waiting at resolved: the step is added
\* to its trace with the key the step used and whether it succeeded
Resolved(f, key, ok) ==
    [f EXCEPT !.trace = Append(@, [step |-> f.pc, key |-> key, ok |-> ok])]
\* the call returns the envelope out, or settles with the result res
Returned(f, out) == [f EXCEPT !.pc = "done", !.out = out, !.res = Ok(<<>>)]
Settled(f, res) == [f EXCEPT !.pc = "done", !.res = res]
\* what a step leaves behind: the frame, the AES-GCM log, the random draws
After(f, log, r) == [f |-> f, log |-> log, rng |-> r]

\* the locals with iv kept at module level and generated only while it is
\* unset: a call that has reached its generateIV() reads the IV of the
\* first call that generated one
Locals_moduleLevelIv(fs, i) ==
    LET set == {j \in 1..Len(fs) : fs[j].iv # <<>>}
        first == CHOOSE j \in set : \A k \in set : j <= k
    IN IF fs[i].iv = <<>> THEN fs[i] ELSE [fs[i] EXCEPT !.iv = fs[first].iv]

\* the locals call number i reads are those of its own activation: every
\* variable of the six functions is a const or a parameter of the function
Locals(fs, i) == fs[i]

\* encryptMessage from the await it is waiting at to its next await
encryptMessageStep(f, log, drawn) ==
    CASE f.pc = "kyberEncapsulate" ->
           LET kem == kyberEncapsulate(f.pk, drawn + 1) IN
           After([Resolved(f, NoKey, TRUE) EXCEPT !.kyberEncryptedSessionKey = kem.ciphertext,
                                                  !.sharedSecret = kem.secret,
                                                  !.pc = "importKey"],
                 log, drawn + 1)
      [] f.pc = "importKey" ->
           After([Resolved(f, NoKey, TRUE) EXCEPT !.sessionKey = importKey(f.sharedSecret).val,
                                                  !.iv = generateIV(drawn + 1),
                                                  !.pc = "encrypt"],
                 log, drawn + 1)
      [] f.pc = "encrypt" ->
           LET enc == subtleEncrypt(log, f.sessionKey, f.iv, TextEncode(f.message)) IN
           After(Returned(Resolved(f, f.sessionKey, TRUE),
                          Envelope("message", concatUint8Arrays(f.iv, enc.out),
                                   f.kyberEncryptedSessionKey, <<>>, <<>>)),
                 enc.log, drawn)

\* the last await of the three decrypt functions: crypto.subtle.decrypt of
\* the packed payload under the session key, then TextDecoder
decryptPayloadStep(f, log, drawn) ==
    LET encryptedData == f.e.env.encryptedData
        dec == subtleDecrypt(log, f.sessionKey, subarrayTo(encryptedData, IVLen),
                             subarrayFrom(encryptedData, IVLen))
    IN After(Settled(Resolved(f, f.sessionKey, dec.ok),
                     IF dec.ok THEN Ok(TextDecode(dec.val)) ELSE Err(dec.err)),
             log, drawn)

decryptMessageStep(f, log, drawn) ==
    CASE f.pc = "kyberDecapsulate" ->
           After([Resolved(f, NoKey, TRUE) EXCEPT
                     !.sharedSecret = kyberDecapsulate(f.e.env.kyberEncryptedSessionKey, f.sk),
                     !.pc = "importKey"],
                 log, drawn)
      [] f.pc = "importKey" ->
           LET sessionKey == importKey(f.sharedSecret) IN
           IF ~sessionKey.ok
           THEN After(Settled(Resolved(f, NoKey, FALSE), Err(sessionKey.err)), log, drawn)
           ELSE After([Resolved(f, NoKey, TRUE) EXCEPT !.sessionKey = sessionKey.val,
                                                       !.pc = "decrypt"],
                      log, drawn)
      [] f.pc = "decrypt" -> decryptPayloadStep(f, log, drawn)

encryptSymmetricMessageStep(f, log, drawn) ==
    CASE f.pc = "deriveKeyFromPassword" ->
           LET salted == IF f.saltOpt = None THEN 1 ELSE 0
               derivedKey == deriveKeyFromPassword(f.pw, f.saltOpt, drawn + 1) IN
           After([Resolved(f, NoKey, TRUE) EXCEPT !.sessionKey = derivedKey.key,
                                                  !.salt = derivedKey.salt,
                                                  !.iv = generateIV(drawn + salted + 1),
                                                  !.pc = "encrypt"],
                 log, drawn + salted + 1)
      [] f.pc = "encrypt" ->
           LET enc == subtleEncrypt(log, f.sessionKey, f.iv, TextEncode(f.message)) IN
           After(Returned(Resolved(f, f.sessionKey, TRUE),
                          Envelope("symmetric", concatUint8Arrays(f.iv, enc.out),
                                   <<>>, f.salt, <<>>)),
                 enc.log, drawn)

decryptSymmetricMessageStep(f, log, drawn) ==
    CASE f.pc = "deriveKeyFromPassword" ->
           After([Resolved(f, NoKey, TRUE) EXCEPT
                     !.sessionKey = deriveKeyFromPassword(f.pw, Some(f.e.env.salt), 0).key,
                     !.pc = "decrypt"],
                 log, drawn)
      [] f.pc = "decrypt" -> decryptPayloadStep(f, log, drawn)

\* encryptForGroup after a pass of its loop, or before the first: the next
\* recipient's encapsulation is awaited, or the envelope is returned
nextRecipient(f) ==
    IF Len(f.wrappedKeys) < Len(f.pks) THEN [f EXCEPT !.pc = "kyberEncapsulate"]
    ELSE Returned(f, Envelope("group", concatUint8Arrays(f.iv, f.encryptedMessage),
                              <<>>, <<>>, f.wrappedKeys))

encryptForGroupStep(f, log, drawn) ==
    CASE f.pc = "generateKey" ->
           After([Resolved(f, NoKey, TRUE) EXCEPT !.sessionKey = generateKey(drawn + 1),
                                                  !.iv = generateIV(drawn + 2),
                                                  !.pc = "exportKey"],
                 log, drawn + 2)
      [] f.pc = "exportKey" ->
           After([Resolved(f, NoKey, TRUE) EXCEPT !.rawSessionKey = exportKey(f.sessionKey),
                                                  !.pc = "encrypt"],
                 log, drawn)
      [] f.pc = "encrypt" ->
           LET enc == subtleEncrypt(log, f.sessionKey, f.iv, TextEncode(f.message)) IN
           After(nextRecipient([Resolved(f, f.sessionKey, TRUE) EXCEPT
                                   !.encryptedMessage = enc.out]),
                 enc.log, drawn)
      [] f.pc = "kyberEncapsulate" ->
           LET kem == kyberEncapsulate(f.pks[Len(f.wrappedKeys) + 1], drawn + 1) IN
           After([Resolved(f, NoKey, TRUE) EXCEPT !.kyberEncryptedSessionKey = kem.ciphertext,
                                                  !.sharedSecret = kem.secret,
                                                  !.pc = "importKey"],
                 log, drawn + 1)
      [] f.pc = "importKey" ->
           After([Resolved(f, NoKey, TRUE) EXCEPT !.wrappingKey = importKey(f.sharedSecret).val,
                                                  !.wrappedIv = generateIV(drawn + 1),
                                                  !.pc = "wrap"],
                 log, drawn + 1)
      [] f.pc = "wrap" ->
           LET enc == subtleEncrypt(log, f.wrappingKey, f.wrappedIv, f.rawSessionKey) IN
           After(nextRecipient([Resolved(f, f.wrappingKey, TRUE) EXCEPT
                                   !.wrappedKeys =
                                       Append(@, WrappedKey(f.kyberEncryptedSessionKey,
                                                            concatUint8Arrays(f.wrappedIv, enc.out)))]),
                 enc.log, drawn)

\* decryptFromGroup up to its first await: reading kyberCipherText of an
\* entry that is not there throws
decryptFromGroupStart(e, sk, idx) ==
    IF idx < 0 \/ idx >= Len(e.env.wrappedKeys)
    THEN Settled(DecryptFrame("decryptFromGroup", "start", e, sk, 0, idx), Err(TypeError))
    ELSE DecryptFrame("decryptFromGroup", "kyberDecapsulate", e, sk, 0, idx)

\* the key material decryptFromGroup imports as the session key: the
\* shared secret of the decapsulation in place of the unwrapped key
importedAsSessionKey_sharedSecret(f) == f.sharedSecret

\* the key material decryptFromGroup imports as the session key
importedAsSessionKey(f) == f.rawSessionKey

decryptFromGroupStep(f, log, drawn) ==
    LET myWrappedKey == f.e.env.wrappedKeys[f.idx + 1] IN
    CASE f.pc = "kyberDecapsulate" ->
           After([Resolved(f, NoKey, TRUE) EXCEPT
                     !.sharedSecret = kyberDecapsulate(myWrappedKey.kyberCipherText, f.sk),
                     !.pc = "importWrappingKey"],
                 log, drawn)
      [] f.pc = "importWrappingKey" ->
           LET wrappingKey == importKey(f.sharedSecret) IN
           IF ~wrappingKey.ok
           THEN After(Settled(Resolved(f, NoKey, FALSE), Err(wrappingKey.err)), log, drawn)
           ELSE After([Resolved(f, NoKey, TRUE) EXCEPT !.wrappingKey = wrappingKey.val,
                                                       !.pc = "unwrap"],
                      log, drawn)
      [] f.pc = "unwrap" ->
           LET rawSessionKey == subtleDecrypt(log, f.wrappingKey,
                                    subarrayTo(myWrappedKey.wrappedSessionKey, IVLen),
                                    subarrayFrom(myWrappedKey.wrappedSessionKey, IVLen)) IN
           IF ~rawSessionKey.ok
           THEN After(Settled(Resolved(f, f.wrappingKey, FALSE), Err(rawSessionKey.err)),
                      log, drawn)
           ELSE After([Resolved(f, f.wrappingKey, TRUE) EXCEPT
                          !.rawSessionKey = rawSessionKey.val,
                          !.pc = "importSessionKey"],
                      log, drawn)
      [] f.pc = "importSessionKey" ->
           LET sessionKey == importKey(importedAsSessionKey(f)) IN
           IF ~sessionKey.ok
           THEN After(Settled(Resolved(f, NoKey, FALSE), Err(sessionKey.err)), log, drawn)
           ELSE After([Resolved(f, NoKey, TRUE) EXCEPT !.sessionKey = sessionKey.val,
                                                       !.pc = "decryptPayload"],
                      log, drawn)
      [] f.pc = "decryptPayload" -> decryptPayloadStep(f, log, drawn)

EncryptOps == {"encryptMessage", "encryptSymmetricMessage", "encryptForGroup"}
InProgress == {i \in 1..Len(running) : running[i].pc # "done"}
EncryptFrames == {i \in 1..Len(running) : running[i].op \in EncryptOps}
CanBegin == Len(running) < MaxFrames /\ Cardinality(InProgress) < MaxRunning
CanBeginEncrypt == CanBegin /\ Cardinality(EncryptFrames) < MaxEnc

\* a call that is done is entered with its outcome: an encrypt call in
\* calls, where its envelope can be taken from, a decrypt call in decs
Entered(f) ==
    IF f.pc # "done" THEN UNCHANGED <<calls, decs>>
    ELSE IF f.op \in EncryptOps
         THEN /\ calls' = Append(calls, Call(f.op, f.message, f.pk, f.pw, f.saltOpt,
                                             f.pks, f.out))
              /\ UNCHANGED decs
    ELSE /\ decs' = Append(decs, Dec(f.op, f.e, f.sk, f.pw, f.idx, f.res))
         /\ UNCHANGED calls

\* a call is made: it runs up to its first await
Begun(f) ==
    /\ running' = Append(running, f)
    /\ Entered(f)
    /\ UNCHANGED <<rng, aeadLog, wire, ser>>

\* The random draws of the calls that run step by step are numbered by
\* call: draw number k of call number i is draw DrawsPerCall * (i - 1) + k,
\* so that no two draws have the same number, in whatever order the calls
\* take their steps.  An encrypt call draws at most twice for the payload
\* and twice for each recipient.
DrawsPerCall == 2 + (2 * MaxRecipients)
DrawnBy(i) == (DrawsPerCall * (i - 1)) + running[i].drawn

\* call number i runs from the await it was waiting at to its next await
Resumed(i, after) ==
    /\ running' = [running EXCEPT ![i] =
                      [after.f EXCEPT !.drawn = after.rng - (DrawsPerCall * (i - 1))]]
    /\ aeadLog' = after.log
    /\ rng' = rng + (after.rng - DrawnBy(i))
    /\ Entered(after.f)
    /\ UNCHANGED <<wire, ser>>

BeginEncryptMessage ==
    /\ CanBeginEncrypt
    /\ \E m \in ConcurrentPlaintexts, k \in KeyPairs :
          Begun(EncryptFrame("encryptMessage", "kyberEncapsulate", m, k, 0, None, <<>>))

BeginEncryptSymmetricMessage ==
    /\ CanBeginEncrypt
    /\ \E m \in ConcurrentPlaintexts, w \in Passwords, salt \in SaltChoices :
          Begun(EncryptFrame("encryptSymmetricMessage", "deriveKeyFromPassword",
                             m, 0, w, salt, <<>>))

BeginEncryptForGroup ==
    /\ CanBeginEncrypt
    /\ \E m \in ConcurrentPlaintexts, ks \in RecipientLists :
          Begun(EncryptFrame("encryptForGroup", "generateKey", m, 0, 0, None, ks))

BeginDecryptMessage ==
    /\ CanBegin
    /\ \E e \in Intact, sk \in KeyPairs :
          /\ e.env.kind = "message"
          /\ Begun(DecryptFrame("decryptMessage", "kyberDecapsulate", e, sk, 0, 0))

BeginDecryptSymmetricMessage ==
    /\ CanBegin
    /\ \E e \in Intact, w \in Passwords :
          /\ e.env.kind = "symmetric"
          /\ Begun(DecryptFrame("decryptSymmetricMessage", "deriveKeyFromPassword", e, 0, w, 0))

BeginDecryptFromGroup ==
    /\ CanBegin
    /\ \E e \in Intact, sk \in KeyPairs, i \in (-1)..MaxRecipients :
          /\ e.env.kind = "group"
          /\ Begun(decryptFromGroupStart(e, sk, i))

ResumeEncryptMessage ==
    \E i \in InProgress :
        /\ running[i].op = "encryptMessage"
        /\ Resumed(i, encryptMessageStep(Locals(running, i), aeadLog, DrawnBy(i)))

ResumeEncryptSymmetricMessage ==
    \E i \in InProgress :
        /\ running[i].op = "encryptSymmetricMessage"
        /\ Resumed(i, encryptSymmetricMessageStep(Locals(running, i), aeadLog, DrawnBy(i)))

ResumeEncryptForGroup ==
    \E i \in InProgress :
        /\ running[i].op = "encryptForGroup"
        /\ Resumed(i, encryptForGroupStep(Locals(running, i), aeadLog, DrawnBy(i)))

ResumeDecryptMessage ==
    \E i \in InProgress :
        /\ running[i].op = "decryptMessage"
        /\ Resumed(i, decryptMessageStep(Locals(running, i), aeadLog, DrawnBy(i)))

ResumeDecryptSymmetricMessage ==
    \E i \in InProgress :
        /\ running[i].op = "decryptSymmetricMessage"
        /\ Resumed(i, decryptSymmetricMessageStep(Locals(running, i), aeadLog, DrawnBy(i)))

ResumeDecryptFromGroup ==
    \E i \in InProgress :
        /\ running[i].op = "decryptFromGroup"
        /\ Resumed(i, decryptFromGroupStep(Locals(running, i), aeadLog, DrawnBy(i)))

NextConcurrent ==
    \/ BeginEncryptMessage
    \/ BeginEncryptSymmetricMessage
    \/ BeginEncryptForGroup
    \/ BeginDecryptMessage
    \/ BeginDecryptSymmetricMessage
    \/ BeginDecryptFromGroup
    \/ ResumeEncryptMessage
    \/ ResumeEncryptSymmetricMessage
    \/ ResumeEncryptForGroup
    \/ ResumeDecryptMessage
    \/ ResumeDecryptSymmetricMessage
    \/ ResumeDecryptFromGroup

SpecConcurrent == Init /\ [][NextConcurrent]_vars

(* ============================= properties ============================= *)
DecsOf(op) == {decs[n] : n \in {m \in 1..Len(decs) : decs[m].op = op}}
\* the encrypt call whose envelope the decrypt call d was given
Origin(d) == calls[d.src]
\* the index of d names an entry of the envelope
InRange(d) == d.idx >= 0 /\ d.idx < Len(Origin(d).pks)
\* the private key of d is the one of the recipient at its index
OwnEntry(d) == InRange(d) /\ d.sk = Origin(d).pks[d.idx + 1]

\* a string of well-formed UTF-16: every surrogate is half of a pair
WellFormed(s) == FromScalars(ToScalars(s)) = s

\* C1: decryptMessage of the unchanged envelope of encryptMessage(P, K.publicKey)
\* with K.privateKey returns exactly P, for every string P (stated here for
\* the well-formed strings only: a lone surrogate is lost as well).
C1_MessageRoundTrip ==
    \A d \in DecsOf("decryptMessage") :
        (d.tam = "none" /\ d.sk = Origin(d).pk /\ WellFormed(Origin(d).message))
        => d.res = Ok(Origin(d).message)

\* C2: decryptSymmetricMessage of the unchanged envelope of
\* encryptSymmetricMessage(P, W[, salt]) with W returns exactly P, at every
\* decryption, with a generated and with a supplied salt (stated for the
\* well-formed strings).
C2_SymmetricRoundTrip ==
    \A d \in DecsOf("decryptSymmetricMessage") :
        (d.tam = "none" /\ d.pw = Origin(d).pw /\ WellFormed(Origin(d).message))
        => d.res = Ok(Origin(d).message)

\* C3: decryptFromGroup of the unchanged envelope of encryptForGroup(P, pubKeys)
\* with index i in [0, N) and the private key of pubKeys[i] returns exactly P
\* (stated for the well-formed strings).
C3_GroupRoundTrip ==
    \A d \in DecsOf("decryptFromGroup") :
        (d.tam = "none" /\ OwnEntry(d) /\ WellFormed(Origin(d).message))
        => d.res = Ok(Origin(d).message)

\* What holds of the three round trips: the plaintext comes back as
\* TextDecoder renders its UTF-8 bytes.
RoundTripsAsDecoded ==
    \A n \in 1..Len(decs) :
        LET d == decs[n] IN
        (/\ d.tam = "none"
         /\ \/ d.op = "decryptMessage" /\ d.sk = Origin(d).pk
            \/ d.op = "decryptSymmetricMessage" /\ d.pw = Origin(d).pw
            \/ d.op = "decryptFromGroup" /\ OwnEntry(d))
        => d.res = Ok(TextDecode(TextEncode(Origin(d).message)))

\* the decrypt call d holds the secret the envelope was made for: the
\* private key of the public key, the password, or the recipient's key at
\* the recipient's index
Matching(d) ==
    \/ d.op = "decryptMessage" /\ d.sk = Origin(d).pk
    \/ d.op = "decryptSymmetricMessage" /\ d.pw = Origin(d).pw
    \/ d.op = "decryptFromGroup" /\ OwnEntry(d)

\* C4: after one byte of the packed payload (IV, ciphertext or tag), of the
\* Kyber ciphertext or of the salt of an envelope is changed, the matching
\* decrypt operation, given the right secret, fails with
\* AuthenticationFailure and returns no plaintext (for a group envelope the
\* Kyber ciphertext is the one of the recipient's entry).
C4_TamperDetected ==
    \A n \in 1..Len(decs) :
        LET d == decs[n] IN
        (/\ Matching(d)
         /\ \/ d.tam \in {"encryptedData", "kyberEncryptedSessionKey", "salt"}
            \/ d.tam = "kyberCipherText" /\ d.ent = d.idx + 1)
        => d.res = Err(AuthenticationFailure)

\* a group envelope, the Kyber ciphertext of the recipient's own entry
\* changed, is refused to the recipient
C4_Witness ==
    \E d \in DecsOf("decryptFromGroup") :
        /\ d.tam = "kyberCipherText" /\ d.ent = d.idx + 1 /\ OwnEntry(d)
        /\ d.res = Err(AuthenticationFailure)

\* C5: decryptMessage with a private key other than the one of the public key
\* used, and decryptSymmetricMessage with a password other than the one used,
\* fail with AuthenticationFailure (the rejection of crypto.subtle.decrypt).
C5_WrongSecretRejected ==
    /\ \A d \in DecsOf("decryptMessage") :
          (d.tam = "none" /\ d.sk # Origin(d).pk) => d.res = Err(AuthenticationFailure)
    /\ \A d \in DecsOf("decryptSymmetricMessage") :
          (d.tam = "none" /\ d.pw # Origin(d).pw) => d.res = Err(AuthenticationFailure)

C5_Witness ==
    /\ Len(decs) = 2
    /\ decs[1].op = "decryptMessage" /\ decs[1].sk # Origin(decs[1]).pk
    /\ decs[2].op = "decryptMessage" /\ decs[2].sk = Origin(decs[2]).pk
    /\ decs[1].src = decs[2].src
    /\ decs[1].res = Err(AuthenticationFailure)
    /\ decs[2].res.ok

\* C6: decryptFromGroup at an index i of the envelope with a private key that
\* is not the one of pubKeys[i] (the key of another recipient, or of nobody in
\* the list) fails with AuthenticationFailure.
C6_GroupWrongKeyRejected ==
    \A d \in DecsOf("decryptFromGroup") :
        (d.tam = "none" /\ InRange(d) /\ d.sk # Origin(d).pks[d.idx + 1])
        => d.res = Err(AuthenticationFailure)

\* a recipient of the envelope uses the index of another recipient
C6_Witness ==
    \E d \in DecsOf("decryptFromGroup") :
        /\ d.tam = "none" /\ InRange(d)
        /\ d.sk # Origin(d).pks[d.idx + 1]
        /\ \E j \in 1..Len(Origin(d).pks) : Origin(d).pks[j] = d.sk
        /\ d.res = Err(AuthenticationFailure)

\* C7: every decryptFromGroup call whose index does not match the recipient
\* the key belongs to, an index outside [0, wrappedKeys.length) included,
\* fails with AuthenticationFailure.
C7_IndexMismatchIsAuthFailure ==
    \A d \in DecsOf("decryptFromGroup") :
        (d.tam = "none" /\ ~OwnEntry(d)) => d.res = Err(AuthenticationFailure)

\* C8: a decrypt call given a packed payload (or, for a group, the wrapped
\* session key of the entry it reads) shorter than the 12-byte IV fails with
\* MalformedEnvelope.
C8_ShortBufferIsMalformed ==
    \A n \in 1..Len(decs) :
        LET d == decs[n] IN
        (/\ d.pos < IVLen
         /\ \/ d.tam = "truncatedData"
            \/ d.tam = "truncatedKey" /\ d.ent = d.idx + 1)
        => d.res = Err(MalformedEnvelope)

\* C9: no two AES-GCM encryptions, of any encrypt calls, use the same key with
\* the same IV.
C9_NoIVReuse ==
    \A m, n \in 1..Len(aeadLog) :
        (m # n /\ aeadLog[m].key = aeadLog[n].key) => aeadLog[m].iv # aeadLog[n].iv

\* two encryptSymmetricMessage calls with the same password and the same
\* supplied salt have encrypted under the same derived key
C9_Witness ==
    /\ Len(calls) = 2
    /\ calls[1].op = "encryptSymmetricMessage" /\ calls[2].op = "encryptSymmetricMessage"
    /\ calls[1].saltOpt # None /\ calls[1].saltOpt = calls[2].saltOpt
    /\ calls[1].pw = calls[2].pw
    /\ Len(aeadLog) = 2 /\ aeadLog[1].key = aeadLog[2].key
    /\ aeadLog[1].iv # aeadLog[2].iv

\* two calls of the same encrypt operation on the same plaintext under the
\* same public key(s) or password
SameInputs(c1, c2) ==
    /\ c1.op = c2.op /\ c1.message = c2.message
    /\ c1.pk = c2.pk /\ c1.pw = c2.pw /\ c1.pks = c2.pks

\* C10: two encrypt calls on the same plaintext under the same public key or
\* password return different encryptedData; two encryptMessage calls also
\* different kyberEncryptedSessionKey; two encryptSymmetricMessage calls
\* without a supplied salt also different salts.
C10_FreshCiphertext ==
    \A m, n \in 1..Len(calls) :
        (m # n /\ SameInputs(calls[m], calls[n])) =>
            /\ calls[m].out.encryptedData # calls[n].out.encryptedData
            /\ calls[m].op = "encryptMessage" =>
                  calls[m].out.kyberEncryptedSessionKey # calls[n].out.kyberEncryptedSessionKey
            /\ (calls[m].op = "encryptSymmetricMessage"
                  /\ calls[m].saltOpt = None /\ calls[n].saltOpt = None) =>
                  calls[m].out.salt # calls[n].out.salt

\* the same plaintext encrypted twice with the same password and the same
\* supplied salt
C10_Witness ==
    /\ Len(calls) = 2
    /\ SameInputs(calls[1], calls[2])
    /\ calls[1].op = "encryptSymmetricMessage"
    /\ calls[1].saltOpt # None /\ calls[1].saltOpt = calls[2].saltOpt
    /\ calls[1].out.salt = calls[2].out.salt
    /\ calls[1].out.encryptedData # calls[2].out.encryptedData

\* what the holder of private key k gets out of the entry w of wrappedKeys:
\* decapsulation, then AES-GCM decryption of what follows the wrapping IV
Unwrapped(w, k) ==
    subtleDecrypt(aeadLog, importKey(kyberDecapsulate(w.kyberCipherText, k)).val,
                  subarrayTo(w.wrappedSessionKey, IVLen),
                  subarrayFrom(w.wrappedSessionKey, IVLen))
GroupCalls == {c \in 1..Len(calls) : calls[c].op = "encryptForGroup"}

\* C11: the wrappedKeys of every encryptForGroup call has as many entries as
\* the call was given public keys, and entry i was made for pubKeys[i], in the
\* caller's order: its Kyber ciphertext is an encapsulation under pubKeys[i]
\* and its wrapped session key opens for the holder of that key only.
C11_WrappedKeysInOrder ==
    \A c \in GroupCalls :
        LET wks == calls[c].out.wrappedKeys
            pks == calls[c].pks IN
        /\ Len(wks) = Len(pks)
        /\ \A i \in 1..Len(pks) :
              /\ \E r \in 1..rng : wks[i].kyberCipherText = KemCiphertext(r, pks[i])
              /\ \A k \in KeyPairs : Unwrapped(wks[i], k).ok <=> k = pks[i]

\* an envelope for two different recipients, the second key pair first
C11_Witness ==
    \E c \in GroupCalls :
        /\ calls[c].pks = <<2, 1>>
        /\ Len(calls[c].out.wrappedKeys) = 2
        /\ Unwrapped(calls[c].out.wrappedKeys[1], 2).ok
        /\ Unwrapped(calls[c].out.wrappedKeys[2], 1).ok

SymmetricCalls == {c \in 1..Len(calls) : calls[c].op = "encryptSymmetricMessage"}

ReadIntact(d) ==
    \/ d.tam = "none"
    \/ /\ d.op = "decryptFromGroup"
       /\ d.tam \in {"kyberCipherText", "wrappedSessionKey", "truncatedKey"}
       /\ d.ent # d.idx + 1

\* C13: a decrypt call either resolves with the decoding of the whole
\* plaintext the encrypt call sealed, and then it held the right secret and
\* every field it read was intact, or it rejects and returns nothing; no
\* call resolves after a step of it failed.
C13_NoPartialSuccess ==
    \A n \in 1..Len(decs) :
        LET d == decs[n] IN
        /\ d.res.ok =>
              /\ Matching(d) /\ ReadIntact(d)
              /\ d.res.val = TextDecode(TextEncode(Origin(d).message))
        /\ ~d.res.ok =>
              /\ d.res.val = <<>>
              /\ d.res.err \in {AuthenticationFailure, TypeError, DataError}
        /\ (Matching(d) /\ ReadIntact(d)) => d.res.ok

\* the recipient's wrapped session key was changed: the unwrap fails, the
\* untouched payload is not returned
C13_Witness ==
    \E d \in DecsOf("decryptFromGroup") :
        /\ d.tam = "wrappedSessionKey" /\ d.ent = d.idx + 1 /\ OwnEntry(d)
        /\ Origin(d).message # <<>>
        /\ ~d.res.ok /\ d.res.val = <<>>

\* C14: any two decrypt calls that fail, whatever made them fail (a wrong key
\* or password, a wrong recipient index, a changed field), show the caller
\* the same failure.
C14_NoFailureOracle ==
    \A m, n \in 1..Len(decs) :
        (~decs[m].res.ok /\ ~decs[n].res.ok) => decs[m].res = decs[n].res

\* What holds of the failures: every failing call that read an entry of the
\* envelope (all but decryptFromGroup with an index outside wrappedKeys)
\* shows the rejection of crypto.subtle.decrypt.
FailuresAlikeInRange ==
    \A n \in 1..Len(decs) :
        LET d == decs[n] IN
        (~d.res.ok /\ (d.op = "decryptFromGroup" => InRange(d)))
        => d.res = Err(AuthenticationFailure)

\* the AES-GCM encryptions an encrypt call makes: one, and for a group one
\* more for each recipient
SealsOf(call) == IF call.op = "encryptForGroup" THEN 1 + Len(call.pks) ELSE 1
RECURSIVE SealsBefore(_)
SealsBefore(c) == IF c <= 1 THEN 0 ELSE SealsBefore(c - 1) + SealsOf(calls[c - 1])
\* the encryptions call number c made, in the order it made them
LogOf(c) == SubSeq(aeadLog, SealsBefore(c) + 1, SealsBefore(c) + SealsOf(calls[c]))

\* C18: encryptForGroup encrypts the payload once, under one session key
\* generated in the call (random bytes, no KEM shared secret, used by no
\* other call) and one IV; every other encryption of the call wraps that
\* session key, and every entry of wrappedKeys unwraps to it.
C18_OneSessionKey ==
    /\ Len(aeadLog) = SealsBefore(Len(calls) + 1)
    /\ \A c \in GroupCalls :
          LET call == calls[c]
              log == LogOf(c)
              sessionKey == log[1].key
              payload == TextEncode(call.message) IN
          /\ log[1].pt = payload
          /\ {n \in 1..Len(log) : log[n].pt = payload \/ log[n].key = sessionKey} = {1}
          /\ call.out.encryptedData =
                concatUint8Arrays(log[1].iv, Sealed(SealId(aeadLog, sessionKey, log[1].iv, payload),
                                                    Len(payload)))
          /\ \E r \in 1..rng : sessionKey = CryptoKey("raw", 0, RandomBytes(r, KeyLen))
          /\ \E r \in 1..rng : log[1].iv = RandomBytes(r, IVLen)
          /\ \A n \in 1..Len(aeadLog) :
                aeadLog[n].key = sessionKey => n = SealsBefore(c) + 1
          /\ \A i \in 1..Len(call.pks) :
                LET w == call.out.wrappedKeys[i] IN
                /\ exportKey(sessionKey) # kyberDecapsulate(w.kyberCipherText, call.pks[i])
                /\ log[i + 1].pt = exportKey(sessionKey)
                /\ Unwrapped(w, call.pks[i]) = Ok(exportKey(sessionKey))

\* an envelope for two recipients: both entries unwrap to the one key the
\* payload was encrypted under
C18_Witness ==
    \E c \in GroupCalls :
        /\ Len(calls[c].pks) = 2 /\ calls[c].pks[1] # calls[c].pks[2]
        /\ Unwrapped(calls[c].out.wrappedKeys[1], calls[c].pks[1])
             = Unwrapped(calls[c].out.wrappedKeys[2], calls[c].pks[2])
        /\ Unwrapped(calls[c].out.wrappedKeys[1], calls[c].pks[1]).ok
        /\ LogOf(c)[1].key.mat = Unwrapped(calls[c].out.wrappedKeys[1], calls[c].pks[1]).val

\* C19: in the wrappedKeys of an encryptForGroup call every entry has its own
\* encapsulation and its own wrapping IV: two entries differ in their Kyber
\* ciphertext, in their wrapping IV and in their wrapped session key, also
\* when they are for the same public key; and every wrapped session key is
\* the 12-byte wrapping IV followed by the AES-GCM encryption of the raw
\* session key under the shared secret of the entry's encapsulation.
C19_PerRecipientWrapping ==
    \A c \in GroupCalls :
        LET call == calls[c]
            wks == call.out.wrappedKeys
            log == LogOf(c) IN
        /\ \A i, j \in 1..Len(wks) : i # j =>
              /\ wks[i].kyberCipherText # wks[j].kyberCipherText
              /\ wks[i].wrappedSessionKey # wks[j].wrappedSessionKey
              /\ subarrayTo(wks[i].wrappedSessionKey, IVLen)
                   # subarrayTo(wks[j].wrappedSessionKey, IVLen)
        /\ \A i \in 1..Len(wks) :
              LET wsk == wks[i].wrappedSessionKey
                  wrappingIv == subarrayTo(wsk, IVLen)
                  secret == kyberDecapsulate(wks[i].kyberCipherText, call.pks[i]) IN
              /\ Len(wsk) = IVLen + KeyLen + TagLen
              /\ \E r \in 1..rng : wrappingIv = RandomBytes(r, IVLen)
              /\ log[i + 1] = [key |-> importKey(secret).val, iv |-> wrappingIv,
                               pt |-> exportKey(log[1].key)]
              /\ wsk = concatUint8Arrays(wrappingIv,
                           Sealed(SealId(aeadLog, log[i + 1].key, wrappingIv, log[i + 1].pt),
                                  KeyLen))

\* the same public key twice in the list: the two entries still differ
C19_Witness ==
    \E c \in GroupCalls :
        /\ Len(calls[c].pks) = 2 /\ calls[c].pks[1] = calls[c].pks[2]
        /\ calls[c].out.wrappedKeys[1].kyberCipherText
             # calls[c].out.wrappedKeys[2].kyberCipherText
        /\ calls[c].out.wrappedKeys[1].wrappedSessionKey
             # calls[c].out.wrappedKeys[2].wrappedSessionKey

\* C16: importBytes(exportBytes(b)) is b for every buffer b, the empty one
\* included, and importKeyPair(exportKeyPair(k)) has the public and the
\* private key of k byte for byte, 1568 and 3168 bytes long.
C16_SerializationRoundTrip ==
    ser.pc = "imported" =>
        /\ ser.op = "bytes" => ser.imported[1] = ser.data[1]
        /\ ser.op = "keyPair" =>
              /\ KeyPairOf(ser.imported).publicKey = KeyPairOf(ser.data).publicKey
              /\ KeyPairOf(ser.imported).privateKey = KeyPairOf(ser.data).privateKey
              /\ Len(KeyPairOf(ser.imported).publicKey) = PublicKeyLen
              /\ Len(KeyPairOf(ser.imported).privateKey) = PrivateKeyLen

\* a key pair has been exported to two different strings and imported again
C16_Witness ==
    /\ ser.op = "keyPair" /\ ser.pc = "imported"
    /\ KeyPairOf(ser.exported).publicKey # KeyPairOf(ser.exported).privateKey
    /\ KeyPairOf(ser.imported) = KeyPairOf(ser.data)

\* C17: decryptFile of a file envelope that lost trailing chunks reports an
\* error, and no decryptFile call returns fewer bytes than the file had.
C17_TruncationDetected ==
    \A d \in DecsOf("decryptFile") :
        /\ d.tam = "truncatedChunks" => ~d.res.ok
        /\ d.res.ok => Len(d.res.val) >= Len(Origin(d).message)

\* a file of several chunks lost its last chunks, one chunk is left, and
\* the holder of the private key is told that the envelope is malformed
C17_Witness ==
    \E d \in DecsOf("decryptFile") :
        /\ d.tam = "truncatedChunks" /\ d.pos >= 1 /\ d.sk = Origin(d).pk
        /\ d.res = Err(MalformedEnvelope)

\* the outcome of the decrypt call d when its function runs from its first
\* line to its last with no other call in between
DecryptedAlone(d) ==
    CASE d.op = "decryptMessage" -> decryptMessage(aeadLog, Origin(d).out, d.sk)
      [] d.op = "decryptSymmetricMessage" -> decryptSymmetricMessage(aeadLog, Origin(d).out, d.pw)
      [] d.op = "decryptFromGroup" -> decryptFromGroup(aeadLog, Origin(d).out, d.sk, d.idx)

\* the envelope of the encrypt call when its function runs alone, as the
\* first call of all
EncryptedAlone(call) ==
    CASE call.op = "encryptMessage" -> encryptMessage(<<>>, 0, call.message, call.pk).out
      [] call.op = "encryptSymmetricMessage" ->
           encryptSymmetricMessage(<<>>, 0, call.message, call.pw, call.saltOpt).out
      [] call.op = "encryptForGroup" -> encryptForGroup(<<>>, 0, call.message, call.pks).out

\* an envelope without the numbers of its random draws and encryptions:
\* what is left says of every byte what kind of byte it is
Blank(buf) == [j \in 1..Len(buf) |-> [buf[j] EXCEPT !.a = IF buf[j].t = "lit" THEN @ ELSE 0]]
Shape(env) ==
    Envelope(env.kind, Blank(env.encryptedData), Blank(env.kyberEncryptedSessionKey),
             Blank(env.salt),
             [n \in 1..Len(env.wrappedKeys) |->
                 WrappedKey(Blank(env.wrappedKeys[n].kyberCipherText),
                            Blank(env.wrappedKeys[n].wrappedSessionKey))])

RangeOf(buf) == {buf[j] : j \in 1..Len(buf)}
BytesOf(env) ==
    RangeOf(env.encryptedData) \cup RangeOf(env.kyberEncryptedSessionKey) \cup RangeOf(env.salt)
    \cup UNION {RangeOf(env.wrappedKeys[n].kyberCipherText)
                   \cup RangeOf(env.wrappedKeys[n].wrappedSessionKey) :
                 n \in 1..Len(env.wrappedKeys)}
\* the random draws (IVs, salts, encapsulations) and the AES-GCM outputs
\* that an envelope holds
DrawsIn(env) == {x.a : x \in {y \in BytesOf(env) : y.t \in {"rnd", "kem"}}}
SealsIn(env) == {x.a : x \in {y \in BytesOf(env) : y.t = "ct"}}

\* the envelope of an encrypt call opens for the secret it was made for
Opens(call) ==
    LET P == Ok(TextDecode(TextEncode(call.message))) IN
    CASE call.op = "encryptMessage" -> decryptMessage(aeadLog, call.out, call.pk) = P
      [] call.op = "encryptSymmetricMessage" ->
           decryptSymmetricMessage(aeadLog, call.out, call.pw) = P
      [] call.op = "encryptForGroup" ->
           \A i \in 1..Len(call.pks) :
               decryptFromGroup(aeadLog, call.out, call.pks[i], i - 1) = P

\* C15: however the steps of concurrently running calls interleave at their
\* awaits, every call ends as it does alone: a decrypt call with the outcome
\* of its function run alone, an encrypt call with an envelope of the
\* layout it has alone, which opens for its own recipients; and nothing one
\* encrypt call drew or produced (IV, salt, encapsulation, wrappedKeys
\* entry, ciphertext, session key) is in the result or among the locals of
\* another encrypt call.
C15_CallsIndependent ==
    /\ \A n \in 1..Len(decs) : decs[n].res = DecryptedAlone(decs[n])
    /\ \A c \in 1..Len(calls) :
          /\ Shape(calls[c].out) = Shape(EncryptedAlone(calls[c]))
          /\ Opens(calls[c])
    /\ \A c1, c2 \in 1..Len(calls) : c1 # c2 =>
          /\ DrawsIn(calls[c1].out) \cap DrawsIn(calls[c2].out) = {}
          /\ SealsIn(calls[c1].out) \cap SealsIn(calls[c2].out) = {}
    /\ \A i, j \in EncryptFrames : i # j =>
          /\ running[i].iv # <<>> => running[i].iv # running[j].iv
          /\ running[i].wrappedIv # <<>> => running[i].wrappedIv # running[j].wrappedIv
          /\ (running[i].op # "encryptSymmetricMessage" /\ running[i].sessionKey # NoKey)
                => running[i].sessionKey # running[j].sessionKey

\* an encryptForGroup call for two recipients was begun first and an
\* encryptMessage call begun after it returned first; the message envelope
\* was then decrypted
C15_Witness ==
    /\ Len(running) = 3
    /\ \A i \in 1..3 : running[i].pc = "done"
    /\ running[1].op = "encryptForGroup" /\ Len(running[1].pks) = 2
    /\ running[2].op = "encryptMessage"
    /\ running[3].op = "decryptMessage"
    /\ Len(calls) = 2 /\ calls[1].op = "encryptMessage" /\ calls[2].op = "encryptForGroup"
    /\ Len(decs) = 1 /\ decs[1].res.ok

\* the steps a decryptFromGroup call that succeeds goes through
GroupLayers ==
    <<"kyberDecapsulate", "importWrappingKey", "unwrap", "importSessionKey", "decryptPayload">>

\* C20: a decryptFromGroup call takes its steps in the order decapsulate,
\* unwrap the session key, decrypt the payload; a step that fails is its
\* last; the unwrap uses the key imported from the decapsulated secret; the
\* payload is decrypted only after the unwrap succeeded, and under the key
\* that the unwrap returned.
C20_LayersInOrder ==
    \A i \in 1..Len(running) :
        LET f == running[i]
            t == f.trace IN
        f.op = "decryptFromGroup" =>
            /\ Len(t) <= Len(GroupLayers)
            /\ \A n \in 1..Len(t) :
                  /\ t[n].step = GroupLayers[n]
                  /\ ~t[n].ok => (n = Len(t) /\ f.pc = "done" /\ ~f.res.ok)
                  /\ t[n].step = "unwrap" =>
                        t[n].key = importKey(kyberDecapsulate(
                                       f.e.env.wrappedKeys[f.idx + 1].kyberCipherText, f.sk)).val
                  /\ t[n].step = "decryptPayload" =>
                        LET unwrapped == Unwrapped(f.e.env.wrappedKeys[f.idx + 1], f.sk) IN
                        /\ t[3].ok /\ unwrapped.ok
                        /\ t[n].key = CryptoKey("raw", 0, unwrapped.val)

\* a call went through both layers and returned the plaintext
C20_Witness ==
    \E i \in 1..Len(running) :
        /\ running[i].op = "decryptFromGroup" /\ running[i].pc = "done"
        /\ Len(running[i].trace) = Len(GroupLayers)
        /\ running[i].res.ok

\* the change made to the envelope left the entry at the index of the call
\* where it was
LeftInPlace(d) ==
    /\ InRange(d)
    /\ \/ d.tam \in {"replacedEntry", "kyberCipherText", "wrappedSessionKey"} /\ d.ent # d.idx + 1
       \/ d.tam = "swappedEntries" /\ d.ent # d.idx + 1 /\ d.pos # d.idx + 1

\* C21: when another entry of wrappedKeys was replaced, corrupted or moved
\* and the entry at recipientIndex stayed where it was, decryptFromGroup ends
\* as it does on the envelope as it was made, for the same private key and
\* index; and with a private key that is not the one of the entry at
\* recipientIndex it fails, whatever the other entries hold.
C21_OtherEntriesIrrelevant ==
    \A d \in DecsOf("decryptFromGroup") :
        LeftInPlace(d) =>
            /\ d.res = decryptFromGroup(aeadLog, Origin(d).out, d.sk, d.idx)
            /\ d.sk # Origin(d).pks[d.idx + 1] => ~d.res.ok
            /\ d.sk = Origin(d).pks[d.idx + 1] => d.res.ok

\* the first of three entries decrypted after the two others changed places
C21_Witness ==
    \E d \in DecsOf("decryptFromGroup") :
        /\ d.tam = "swappedEntries" /\ LeftInPlace(d)
        /\ Len(Origin(d).pks) = MaxRecipients + 1
        /\ d.res.ok

\* the decrypt call used the private key of its own entry, and the same
\* public key stands at another position of the recipient list as well
KeyListedTwice(d) ==
    /\ d.tam = "none"
    /\ OwnEntry(d)
    /\ \E j \in 1..Len(Origin(d).pks) : j # d.idx + 1 /\ Origin(d).pks[j] = d.sk

\* C22: when a public key stands at two positions of the recipient list,
\* decryptFromGroup with the matching private key returns the plaintext at
\* either position.
C22_DuplicateKeyEitherPosition ==
    \A d \in DecsOf("decryptFromGroup") :
        KeyListedTwice(d) => d.res = Ok(Origin(d).message)

\* what holds in place of C22: at either position the call succeeds, with
\* the decoding of the encoded plaintext, which is the plaintext when that
\* is well-formed and does not start with U+FEFF
DuplicateKeyEitherPositionAsDecoded ==
    \A d \in DecsOf("decryptFromGroup") :
        KeyListedTwice(d) =>
            /\ d.res = Ok(TextDecode(TextEncode(Origin(d).message)))
            /\ (WellFormed(Origin(d).message) /\ (\A j \in 1..Len(Origin(d).message) : Origin(d).message[j] # BOM))
                  => d.res = Ok(Origin(d).message)

\* C24: encryptForGroup with an empty recipient list returns a group
\* envelope with no wrappedKeys whose encryptedData is the IV followed by the
\* AES-GCM encryption of the encoded message under the generated session
\* key; decryptFromGroup fails on it for every private key and every index.
C24_EmptyRecipientList ==
    /\ \A c \in GroupCalls :
          calls[c].pks = <<>> =>
              LET out == calls[c].out
                  pt == TextEncode(calls[c].message)
                  iv == subarrayTo(out.encryptedData, IVLen)
                  ciphertext == subarrayFrom(out.encryptedData, IVLen)
                  seal == LogOf(c)[1] IN
              /\ out.kind = "group"
              /\ out.wrappedKeys = <<>>
              /\ Len(out.encryptedData) = IVLen + Len(pt) + TagLen
              /\ seal.key.kind = "raw" /\ seal.iv = iv /\ seal.pt = pt
              /\ subtleDecrypt(aeadLog, seal.key, iv, ciphertext) = Ok(pt)
              /\ \A sk \in KeyPairs, i \in (-1)..MaxRecipients :
                    ~decryptFromGroup(aeadLog, out, sk, i).ok
    /\ \A d \in DecsOf("decryptFromGroup") :
          (d.tam = "none" /\ Origin(d).pks = <<>>) => ~d.res.ok

\* an envelope made for nobody was handed to decryptFromGroup with index 0
C24_Witness ==
    \E d \in DecsOf("decryptFromGroup") :
        /\ d.tam = "none" /\ Origin(d).pks = <<>>
        /\ Origin(d).out.wrappedKeys = <<>>
        /\ d.idx = 0
        /\ ~d.res.ok

\* the decrypt calls made on an envelope put together from parts in one of
\* the ways tams
SplicedDecs(tams) == {n \in 1..Len(decs) : decs[n].tam \in tams}

\* C23: a decrypt call on an envelope put together from fields of the
\* envelopes made so far, when it succeeds, returns the plaintext of the
\* encrypt call that produced the bytes it was given as encryptedData.
C23_SplicingSafe ==
    \A n \in SplicedDecs({"splicedData", "replacedEntry", "wrappedKeyAsMessage"}) :
        decs[n].res.ok => decs[n].res = Ok(Origin(decs[n]).message)

\* what holds in place of C23: it holds as long as the bytes given as
\* encryptedData are the encryptedData field of an envelope
SplicedEncryptedDataSafe ==
    \A n \in SplicedDecs({"splicedData", "replacedEntry"}) :
        decs[n].res.ok => decs[n].res = Ok(Origin(decs[n]).message)

\* reached: the encryptedData of one symmetric envelope with the salt of
\* another made from the same password and the same supplied salt opens, to
\* the plaintext of the call that made the encryptedData
SplicedSaltOpens ==
    \E n \in SplicedDecs({"splicedData"}) :
        /\ decs[n].op = "decryptSymmetricMessage"
        /\ decs[n].res = Ok(Origin(decs[n]).message)
        /\ Origin(decs[n]).message # calls[decs[n].ent].message

\* reached: a wrappedKeys entry read as a message envelope opens under the
\* private key of its recipient, to the decoding of the raw session key
WrappedKeyOpensAsMessage ==
    \E n \in SplicedDecs({"wrappedKeyAsMessage"}) :
        /\ decs[n].op = "decryptMessage"
        /\ decs[n].sk = Origin(decs[n]).pks[decs[n].ent]
        /\ decs[n].res.ok
        /\ Len(decs[n].res.val) = KeyLen

====
